---- MODULE Spec2Model ----
(***************************************************************************)
(* Model of the conversational reservation IVR (conversational_ai.py and   *)
(* the Twilio webhook handlers of backend.py that drive it).               *)
(*                                                                         *)
(* Text is modelled as sequences of one-character strings, so that the     *)
(* regular expressions, substring tests, split/replace/capitalize calls    *)
(* of the Python source are computed, not assumed.  The empty sequence     *)
(* stands for an absent Redis hash field (hget -> None): the code only     *)
(* ever tests such values for truthiness and never stores an empty string. *)
(***************************************************************************)
EXTENDS Integers, Sequences, FiniteSets, TLC

(***************************************************************************)
(* Characters and Python str methods                                       *)
(***************************************************************************)
\* a sequence given by a function constructor, as an explicit tuple
Tup(f) == f \o <<>>
\* Let(v, F) is F(v): a value that is computed once and used several times
Let(v, F(_)) == F(v)
\* the characters of a string
S(str) == Tup([i \in 1..Len(str) |-> SubSeq(str, i, i)])

LowerCase == S("abcdefghijklmnopqrstuvwxyz")
UpperCase == S("ABCDEFGHIJKLMNOPQRSTUVWXYZ")
Digits == {"0", "1", "2", "3", "4", "5", "6", "7", "8", "9"}
DigitSeq == S("0123456789")
LowerSet == {LowerCase[i] : i \in 1..26}
UpperSet == {UpperCase[i] : i \in 1..26}
\* \w, \s of Python's re module (ASCII part)
WordChars == LowerSet \cup UpperSet \cup Digits \cup {"_"}
SpaceChars == {" "}

lower_char(c) == IF c \in UpperSet THEN LowerCase[CHOOSE i \in 1..26 : UpperCase[i] = c] ELSE c
upper_char(c) == IF c \in LowerSet THEN UpperCase[CHOOSE i \in 1..26 : LowerCase[i] = c] ELSE c

\* str.lower(), str.upper(), str.capitalize()
lower(s) == Tup([i \in 1..Len(s) |-> lower_char(s[i])])
upper(s) == Tup([i \in 1..Len(s) |-> upper_char(s[i])])
capitalize(s) == Tup([i \in 1..Len(s) |-> IF i = 1 THEN upper_char(s[i]) ELSE lower_char(s[i])])

\* str.strip()
strip(s) ==
    LET idx == {i \in 1..Len(s) : s[i] \notin SpaceChars}
        lo == CHOOSE i \in idx : \A j \in idx : i <= j
        hi == CHOOSE i \in idx : \A j \in idx : i >= j
    IN IF idx = {} THEN <<>> ELSE SubSeq(s, lo, hi)

\* needle in haystack (Python's substring test)
StartsAt(s, i, lit) == i + Len(lit) - 1 <= Len(s) /\ SubSeq(s, i, i + Len(lit) - 1) = lit
Contains(s, lit) == \E i \in 1..(Len(s) + 1) : StartsAt(s, i, lit)

\* str.split(): the maximal runs of non-whitespace characters
RECURSIVE split(_)
split(s) ==
    LET t == strip(s)
        sp == {i \in 1..Len(t) : t[i] \in SpaceChars}
        k == CHOOSE i \in sp : \A j \in sp : i <= j
    IN IF t = <<>> THEN <<>>
       ELSE IF sp = {} THEN <<t>>
       ELSE <<SubSeq(t, 1, k - 1)>> \o split(SubSeq(t, k + 1, Len(t)))

\* ' '.join(words)
RECURSIVE join(_)
join(words) ==
    IF words = <<>> THEN <<>>
    ELSE IF Len(words) = 1 THEN words[1]
    ELSE words[1] \o <<" ">> \o join(Tail(words))

\* str.replace(old, new): every non-overlapping occurrence, left to right
RECURSIVE replace(_, _, _)
replace(s, old, new) ==
    LET at == {i \in 1..Len(s) : StartsAt(s, i, old)}
        first == CHOOSE i \in at : \A j \in at : i <= j
    IN IF at = {} THEN s
       ELSE SubSeq(s, 1, first - 1) \o new \o replace(SubSeq(s, first + Len(old), Len(s)), old, new)

\* re.sub(r'[^\d]', '', s)
digits_only(s) == SelectSeq(s, LAMBDA c : c \in Digits)

\* int(s) for a string of decimal digits, str(n) for a natural number
DigitVal(c) == (CHOOSE i \in 1..10 : DigitSeq[i] = c) - 1
RECURSIVE int(_)
int(s) == IF s = <<>> THEN 0 ELSE 10 * int(SubSeq(s, 1, Len(s) - 1)) + DigitVal(s[Len(s)])
RECURSIVE str(_)
str(n) == IF n < 10 THEN <<DigitSeq[n + 1]>> ELSE str(n \div 10) \o <<DigitSeq[(n % 10) + 1]>>

(***************************************************************************)
(* Python's re module: a backtracking matcher.  A pattern is a tagged      *)
(* tuple.  Match takes the patterns still to be matched one after the      *)
(* other from position i and returns, in the order the backtracking search *)
(* tries them, the <<end, groups>> pairs with which they can match.        *)
(***************************************************************************)
Lit(text) == <<"lit", S(text)>>
Cls(set) == <<"cls", set>>
Cat(rs) == <<"cat", rs>>
Alt(rs) == <<"alt", rs>>
Rep(r, lo, hi) == <<"rep", r, lo, hi>>
Opt(r) == <<"rep", r, 0, 1>>
Grp(k, r) == <<"grp", k, r>>
WB == <<"wb">>
BOS == <<"bos">>
EOS == <<"eos">>
Star(r) == <<"rep", r, 0, -1>>
Plus(r) == <<"rep", r, 1, -1>>
Words(texts) == Alt(Tup([i \in 1..Len(texts) |-> Lit(texts[i])]))
D == Cls(Digits)
Sp0 == Star(Cls(SpaceChars))
Sp1 == Plus(Cls(SpaceChars))

\* no pattern of the program has more than four groups
NoGroups == << <<0, 0>>, <<0, 0>>, <<0, 0>>, <<0, 0>> >>

IsWord(s, i) == i >= 1 /\ i <= Len(s) /\ s[i] \in WordChars
AtBoundary(s, i) == IsWord(s, i - 1) # IsWord(s, i)

\* rs also holds two marks the matcher leaves for itself: <<"end", k, from>>
\* closes group k opened at from, <<"moved", from>> ends a repetition whose
\* last round matched the empty string.
RECURSIVE Match(_, _, _, _)
Match(rs, s, i, g) ==
    IF rs = <<>> THEN << <<i, g>> >>
    ELSE CASE rs[1][1] = "lit" ->
                IF StartsAt(s, i, rs[1][2]) THEN Match(Tail(rs), s, i + Len(rs[1][2]), g)
                ELSE <<>>
           [] rs[1][1] = "cls" ->
                IF i <= Len(s) /\ s[i] \in rs[1][2] THEN Match(Tail(rs), s, i + 1, g) ELSE <<>>
           [] rs[1][1] = "wb"  -> IF AtBoundary(s, i) THEN Match(Tail(rs), s, i, g) ELSE <<>>
           [] rs[1][1] = "bos" -> IF i = 1 THEN Match(Tail(rs), s, i, g) ELSE <<>>
           [] rs[1][1] = "eos" -> IF i = Len(s) + 1 THEN Match(Tail(rs), s, i, g) ELSE <<>>
           [] rs[1][1] = "cat" -> Match(rs[1][2] \o Tail(rs), s, i, g)
           \* a|b|...: the matches through a, then those through b, ...
           [] rs[1][1] = "alt" ->
                IF rs[1][2] = <<>> THEN <<>>
                ELSE Match(<<rs[1][2][1]>> \o Tail(rs), s, i, g)
                     \o Match(<<Alt(Tail(rs[1][2]))>> \o Tail(rs), s, i, g)
           \* a{lo,hi}, greedy: one more a first, then stopping here
           [] rs[1][1] = "rep" ->
                IF rs[1][4] = 0 THEN Match(Tail(rs), s, i, g)
                ELSE Match(<<rs[1][2], <<"moved", i>>,
                             Rep(rs[1][2], IF rs[1][3] > 0 THEN rs[1][3] - 1 ELSE 0,
                                 rs[1][4] - 1)>> \o Tail(rs), s, i, g)
                     \o (IF rs[1][3] > 0 THEN <<>> ELSE Match(Tail(rs), s, i, g))
           \* (a): record where group k matched
           [] rs[1][1] = "grp" -> Match(<<rs[1][3], <<"end", rs[1][2], i>>>> \o Tail(rs), s, i, g)
           [] rs[1][1] = "end" ->
                Match(Tail(rs), s, i, [g EXCEPT ![rs[1][2]] = <<rs[1][3], i>>])
           [] rs[1][1] = "moved" -> IF i = rs[1][2] THEN <<>> ELSE Match(Tail(rs), s, i, g)

\* re.search(pattern, s): the leftmost position with a match, and the first
\* match the backtracking search finds there.  start/end are 1-based
\* positions, the match is s[start .. end-1].
NoMatch == [found |-> FALSE, start |-> 0, end |-> 0, groups |-> NoGroups]
search(r, s) ==
    Let(Tup([i \in 1..(Len(s) + 1) |-> Match(<<r>>, s, i, NoGroups)]), LAMBDA ms :
        LET starts == {i \in 1..(Len(s) + 1) : ms[i] # <<>>}
            i0 == CHOOSE i \in starts : \A j \in starts : i <= j
        IN IF starts = {} THEN NoMatch
           ELSE [found |-> TRUE, start |-> i0, end |-> ms[i0][1][1], groups |-> ms[i0][1][2]])
\* match.group(0), match.group(k)
group0(s, m) == SubSeq(s, m.start, m.end - 1)
group(s, m, k) == SubSeq(s, m.groups[k][1], m.groups[k][2] - 1)

(***************************************************************************)
(* Enumerations                                                            *)
(***************************************************************************)
\* class Intent
MAKE_RESERVATION == "make_reservation"
CHECK_RESERVATION == "check_reservation"
CANCEL_RESERVATION == "cancel_reservation"
GREETING == "greeting"
HELP == "help"
GOODBYE == "goodbye"
UNKNOWN == "unknown"
\* the members that own patterns, in declaration (dict insertion) order
IntentOrder == <<MAKE_RESERVATION, CHECK_RESERVATION, CANCEL_RESERVATION, GREETING, HELP, GOODBYE>>

\* class ConversationState
INITIAL == "initial"
COLLECTING_NAME == "collecting_name"
COLLECTING_CONTACT == "collecting_contact"
COLLECTING_DATE == "collecting_date"
COLLECTING_TIME == "collecting_time"
COLLECTING_GUESTS == "collecting_guests"
COLLECTING_RESERVATION_ID == "collecting_reservation_id"
CONFIRMING_RESERVATION == "confirming_reservation"
COMPLETED == "completed"
ConversationState == {INITIAL, COLLECTING_NAME, COLLECTING_CONTACT, COLLECTING_DATE,
                      COLLECTING_TIME, COLLECTING_GUESTS, COLLECTING_RESERVATION_ID,
                      CONFIRMING_RESERVATION, COMPLETED}

(***************************************************************************)
(* IntentRecognizer.__init__: the intent patterns                          *)
(***************************************************************************)
intent_patterns(intent) ==
    CASE intent = MAKE_RESERVATION -> <<
            Cat(<<WB, Words(<<"make", "create", "book", "reserve", "new reservation",
                              "want to reserve", "need a table">>), WB>>),
            Cat(<<WB, Words(<<"table for", "reservation for", "book a table">>), WB>> ) >>
      [] intent = CHECK_RESERVATION -> <<
            Cat(<<WB, Words(<<"check", "view", "see", "look up", "find", "status of", "details of">>),
                  Sp1, Opt(Words(<<"my ", "the ">>)), Lit("reservation"), WB>>),
            Cat(<<WB, Lit("reservation "), Words(<<"status", "details", "info">>), WB>>),
            Cat(<<WB, Lit("what is "), Opt(Words(<<"my ", "the ">>)), Lit("reservation"), WB>>) >>
      [] intent = CANCEL_RESERVATION -> <<
            Cat(<<WB, Words(<<"cancel", "delete", "remove", "cancel my", "cancel the", "remove my">>),
                  Sp1, Words(<<"reservation", "booking">>), WB>>),
            Cat(<<WB, Lit("cancel"), WB>>) >>
      [] intent = GREETING -> <<
            Cat(<<WB, Words(<<"hi", "hello", "hey", "greetings", "good morning",
                              "good afternoon", "good evening">>), WB>>) >>
      [] intent = HELP -> <<
            Cat(<<WB, Words(<<"help", "what can you do", "options", "menu",
                              "assistance", "support">>), WB>>) >>
      [] intent = GOODBYE -> <<
            Cat(<<WB, Words(<<"bye", "goodbye", "thanks", "thank you", "done",
                              "finish", "exit", "end">>), WB>>) >>

(***************************************************************************)
(* IntentRecognizer.recognize_intent.  Scores are exact rationals kept as  *)
(* integers in units of 1/60 (the pattern counts are 1, 2 and 3 and the    *)
(* weights 1.0 and 0.7), so 1.0 is 60 and the 0.3 threshold is 18.         *)
(***************************************************************************)
ScoreUnit == 60
Threshold == 18

\* the weight 1.0 wherever the match starts
position_weight_always_one(m, text) == 10

\* position_weight, in tenths: 1.0 if match.start() < len * 0.3 else 0.7
position_weight(m, text) == IF 10 * (m.start - 1) < 3 * Len(text) THEN 10 ELSE 7

RECURSIVE SumSeq(_)
SumSeq(q) == IF q = <<>> THEN 0 ELSE Head(q) + SumSeq(Tail(q))

\* the score of an intent without the min(..., 1.0)
intent_score_without_cap(intent, text) ==
    Let(intent_patterns(intent), LAMBDA patterns :
    Let(Tup([k \in 1..Len(patterns) |-> search(patterns[k], text)]), LAMBDA found :
        LET matches == Cardinality({k \in 1..Len(patterns) : found[k].found})
            score == SumSeq([k \in 1..Len(patterns) |->
                        IF found[k].found THEN position_weight(found[k], text) ELSE 0])
        IN (score * matches * 6) \div Len(patterns)))

\* intent_scores[intent]; 0 when no pattern of the intent matches (no entry)
intent_score(intent, text) ==
    Let(intent_patterns(intent), LAMBDA patterns :
    Let(Tup([k \in 1..Len(patterns) |-> search(patterns[k], text)]), LAMBDA found :
        LET matches == Cardinality({k \in 1..Len(patterns) : found[k].found})
            score == SumSeq([k \in 1..Len(patterns) |->
                        IF found[k].found THEN position_weight(found[k], text) ELSE 0])
            scaled == (score * matches * 6) \div Len(patterns)
        IN IF matches = 0 THEN 0 ELSE IF scaled > ScoreUnit THEN ScoreUnit ELSE scaled))

\* the recognizer returning the last, not the first, of the intents with the
\* highest score
recognize_intent_last_of_ties(user_input) ==
    Let(Tup([k \in 1..Len(IntentOrder) |->
                intent_score(IntentOrder[k], strip(lower(user_input)))]), LAMBDA scores :
        LET best == CHOOSE k \in 1..Len(IntentOrder) :
                        /\ \A j \in 1..Len(IntentOrder) : scores[j] <= scores[k]
                        /\ \A j \in (k + 1)..Len(IntentOrder) : scores[j] < scores[k]
        IN IF user_input = <<>> THEN [intent |-> UNKNOWN, confidence |-> 0]
           ELSE IF scores[best] >= Threshold
                THEN [intent |-> IntentOrder[best], confidence |-> scores[best]]
                ELSE [intent |-> UNKNOWN, confidence |-> 0])

recognize_intent(user_input) ==
    Let(Tup([k \in 1..Len(IntentOrder) |->
                intent_score(IntentOrder[k], strip(lower(user_input)))]), LAMBDA scores :
        LET best == CHOOSE k \in 1..Len(IntentOrder) :
                        /\ \A j \in 1..Len(IntentOrder) : scores[j] <= scores[k]
                        /\ \A j \in 1..(k - 1) : scores[j] < scores[k]
        IN IF user_input = <<>> THEN [intent |-> UNKNOWN, confidence |-> 0]
           ELSE IF scores[best] >= Threshold
                THEN [intent |-> IntentOrder[best], confidence |-> scores[best]]
                ELSE [intent |-> UNKNOWN, confidence |-> 0])

(***************************************************************************)
(* IntentRecognizer.extract_entities                                       *)
(***************************************************************************)
Months == Words(<<"january", "february", "march", "april", "may", "june", "july", "august",
                  "september", "october", "november", "december">>)
D12 == Rep(D, 1, 2)
OrdinalSuffix == Opt(Words(<<"st", "nd", "rd", "th">>))
Twenty(unit) == Cat(<<Lit("twenty"), Cls({"-", " "}), Lit(unit)>>)
Thirty(unit) == Cat(<<Lit("thirty"), Cls({"-", " "}), Lit(unit)>>)
DayOrdinal == Alt(<<Cat(<<D12, OrdinalSuffix>>),
    Lit("first"), Lit("second"), Lit("third"), Lit("fourth"), Lit("fifth"), Lit("sixth"),
    Lit("seventh"), Lit("eighth"), Lit("ninth"), Lit("tenth"), Lit("eleventh"), Lit("twelfth"),
    Lit("thirteenth"), Lit("fourteenth"), Lit("fifteenth"), Lit("sixteenth"), Lit("seventeenth"),
    Lit("eighteenth"), Lit("nineteenth"), Lit("twentieth"),
    Twenty("first"), Twenty("second"), Twenty("third"), Twenty("fourth"), Twenty("fifth"),
    Twenty("sixth"), Twenty("seventh"), Twenty("eighth"), Twenty("ninth"),
    Lit("thirtieth"), Thirty("first")>>)
Weekdays == Words(<<"monday", "tuesday", "wednesday", "thursday", "friday", "saturday", "sunday">>)
AmPm == Words(<<"am", "pm">>)
HourWords == <<"one", "two", "three", "four", "five", "six", "seven", "eight", "nine", "ten",
               "eleven", "twelve">>
HourOrWord == Alt(<<D12>> \o [i \in 1..Len(HourWords) |-> Lit(HourWords[i])])

date_patterns == <<
    Cat(<<WB, Words(<<"today", "tomorrow", "next week", "this week", "next monday", "next tuesday",
                      "next wednesday", "next thursday", "next friday", "next saturday",
                      "next sunday">>), WB>>),
    Cat(<<WB, Grp(1, Months), Sp1, Grp(2, DayOrdinal), WB>>),
    Cat(<<WB, Opt(Grp(1, Cat(<<Lit("the"), Sp1>>))), Grp(2, DayOrdinal), Sp1, Lit("of"), Sp1,
          Grp(3, Months), WB>>),
    Cat(<<WB, Grp(1, D12), Cls({"/", "-"}), Grp(2, D12), Cls({"/", "-"}), Grp(3, Rep(D, 2, 4)), WB>>),
    Cat(<<WB, Grp(1, Months), Sp1, Grp(2, D12), WB>>),
    Cat(<<WB, Opt(Grp(1, Cat(<<Lit("next"), Sp1>>))), Grp(2, Weekdays), WB>>) >>

time_patterns == <<
    Cat(<<WB, Grp(1, D12), Lit(":"), Grp(2, Rep(D, 2, 2)), Sp0, Grp(3, AmPm), WB>>),
    Cat(<<WB, Grp(1, D12), Sp0, Grp(2, AmPm), WB>>),
    Cat(<<WB, Grp(1, HourOrWord), Sp0, Lit("o"), Opt(Cls({"'", "-"})), Lit("clock"), Sp0,
          Opt(Grp(2, AmPm)), WB>>),
    Cat(<<WB, Grp(1, Words(<<"at", "by", "around", "about">>)), Sp1, Grp(2, D12), WB>>),
    Cat(<<BOS, Sp0, Grp(1, D12), Sp0, EOS>>),
    Cat(<<WB, Grp(1, Words(<<"morning", "afternoon", "evening", "night", "noon", "midnight",
                             "lunch", "dinner">>)), WB>>),
    Cat(<<WB, Grp(1, Words(<<"half", "quarter">>)), Sp1, Grp(2, Words(<<"past", "to">>)), Sp1,
          Grp(3, D12), Sp0, Opt(Grp(4, AmPm)), WB>>) >>

guest_patterns == <<
    Cat(<<WB, Grp(1, Plus(D)), Sp0, Grp(2, Words(<<"people", "guests", "persons", "pax">>)), WB>>),
    Cat(<<WB, Grp(1, Words(<<"table for", "reservation for">>)), Sp1, Grp(2, Plus(D)), WB>>),
    Cat(<<WB, Grp(1, Plus(D)), WB>>) >>

reservation_id_pattern == Cat(<<WB, Grp(1, Rep(Cls(UpperSet \cup Digits), 6, 10)), WB>>)

Sep == Opt(Cls({"-", ".", " "}))
phone_patterns == <<
    Cat(<<WB, Grp(1, Rep(D, 10, 15)), WB>>),
    Cat(<<WB, Grp(1, Cat(<<Rep(D, 3, 3), Sep, Rep(D, 3, 3), Sep, Rep(D, 4, 4)>>)), WB>>),
    Cat(<<WB, Grp(1, Cat(<<Rep(D, 3, 3), Sep, Rep(D, 7, 7)>>)), WB>>),
    Cat(<<WB, Grp(1, Cat(<<Lit("("), Rep(D, 3, 3), Lit(")"), Sep, Rep(D, 3, 3), Sep,
                           Rep(D, 4, 4)>>)), WB>>) >>

EmailChars == WordChars \cup {".", "-"}
email_pattern == Cat(<<WB, Plus(Cls(EmailChars)), Lit("@"), Plus(Cls(EmailChars)), Lit("."),
                       Plus(Cls(WordChars)), WB>>)

\* the match of the first pattern, from the k-th on, that matches:
\* "for pattern in ...: match = re.search(...); if match: ... break"
RECURSIVE FirstMatching(_, _, _)
FirstMatching(patterns, text, k) ==
    IF k > Len(patterns) THEN NoMatch
    ELSE Let(search(patterns[k], text), LAMBDA match :
            IF match.found THEN match ELSE FirstMatching(patterns, text, k + 1))

\* lines 140-161: the date entity
IndexOf(parts, w) == CHOOSE k \in 1..Len(parts) : parts[k] = w /\ \A j \in 1..(k - 1) : parts[j] # w
extract_date(user_input_lower) ==
    Let(FirstMatching(date_patterns, user_input_lower, 1), LAMBDA match :
    Let(group0(user_input_lower, match), LAMBDA matched_text :
    Let(split(matched_text), LAMBDA parts :
        LET of_index == IndexOf(parts, S("of"))
        IN IF ~match.found THEN <<>>
           ELSE IF Contains(matched_text, S("of")) /\ (\E j \in 1..Len(parts) : parts[j] = S("of"))
                   /\ of_index > 1 /\ of_index < Len(parts)
                THEN strip(parts[of_index + 1] \o <<" ">> \o join(SubSeq(parts, 1, of_index - 1)))
                ELSE matched_text)))

\* lines 181-209: the time entity
word_to_num(number) ==
    IF \E i \in 1..Len(HourWords) : S(HourWords[i]) = number
    THEN str(CHOOSE i \in 1..Len(HourWords) : S(HourWords[i]) = number)
    ELSE number
extract_time(user_input_lower) ==
    Let(FirstMatching(time_patterns, user_input_lower, 1), LAMBDA match :
    Let(group0(user_input_lower, match), LAMBDA matched_text :
    Let(search(Cat(<<WB, Grp(1, HourOrWord), WB>>), matched_text), LAMBDA number_part :
    Let(search(Cat(<<WB, Grp(1, AmPm), WB>>), matched_text), LAMBDA ampm_part :
    Let(word_to_num(group(matched_text, number_part, 1)), LAMBDA number :
        IF ~match.found THEN <<>>
        ELSE IF Contains(matched_text, S("o'clock")) \/ Contains(matched_text, S("oclock"))
             THEN IF number_part.found
                  THEN IF ampm_part.found
                       THEN number \o <<" ">> \o group(matched_text, ampm_part, 1)
                       ELSE number \o S(" pm")
                  ELSE <<>>
             ELSE matched_text)))))

\* lines 218-228: the guests entity.  int(num) raises ValueError, and the
\* loop goes on to the next pattern, when group 1 is not a number.
\* Python integers are unbounded: a digit string with more than two
\* significant digits is above 20 whatever its value.
IsNumber(s) == s # <<>> /\ \A i \in 1..Len(s) : s[i] \in Digits
RECURSIVE StripZeros(_)
StripZeros(s) == IF Len(s) > 1 /\ s[1] = "0" THEN StripZeros(Tail(s)) ELSE s
\* the guests entity without the upper limit of line 224
GuestAt_without_upper_limit(k, user_input_lower) ==
    Let(search(guest_patterns[k], user_input_lower), LAMBDA match :
    Let(StripZeros(group(user_input_lower, match, 1)), LAMBDA num :
        IF match.found /\ IsNumber(num) /\ Len(num) <= 2 /\ 1 <= int(num)
        THEN str(int(num)) ELSE <<>>))

GuestAt(k, user_input_lower) ==
    Let(search(guest_patterns[k], user_input_lower), LAMBDA match :
    Let(StripZeros(group(user_input_lower, match, 1)), LAMBDA num :
        IF match.found /\ IsNumber(num) /\ Len(num) <= 2 /\ 1 <= int(num) /\ int(num) <= 20
        THEN str(int(num)) ELSE <<>>))
RECURSIVE GuestFrom(_, _)
GuestFrom(k, user_input_lower) ==
    IF k > Len(guest_patterns) THEN <<>>
    ELSE Let(GuestAt(k, user_input_lower), LAMBDA guests :
            IF guests # <<>> THEN guests ELSE GuestFrom(k + 1, user_input_lower))
extract_guests(user_input_lower) == GuestFrom(1, user_input_lower)

\* lines 230-234: the reservation id entity
extract_reservation_id(user_input) ==
    Let(search(reservation_id_pattern, upper(user_input)), LAMBDA match :
        IF match.found THEN group(upper(user_input), match, 1) ELSE <<>>)

\* lines 236-243: the name entity
extract_name(user_input, current_state) ==
    Let(split(user_input), LAMBDA words :
    Let(SelectSeq(words, LAMBDA w : Len(w) > 2), LAMBDA name_candidates :
        IF current_state = COLLECTING_NAME /\ Len(words) >= 1 /\ Len(words) <= 3
           /\ name_candidates # <<>>
        THEN join([i \in 1..Len(name_candidates) |-> capitalize(name_candidates[i])])
        ELSE <<>>))

\* lines 247-258: spoken digits to digits, in the order of number_word_map
number_word_map == << <<"zero", "0">>, <<"one", "1">>, <<"two", "2">>, <<"three", "3">>,
                      <<"four", "4">>, <<"five", "5">>, <<"six", "6">>, <<"seven", "7">>,
                      <<"eight", "8">>, <<"nine", "9">>, <<"oh", "0">>, <<"o", "0">> >>
RECURSIVE normalize_number_words(_, _)
normalize_number_words(text, k) ==
    IF k > Len(number_word_map) \/ text = <<>> THEN text
    ELSE LET word == S(number_word_map[k][1])
             digit == S(number_word_map[k][2])
             r1 == replace(text, <<" ">> \o word \o <<" ">>, <<" ">> \o digit \o <<" ">>)
             r2 == replace(r1, <<" ">> \o word, <<" ">> \o digit)
             r3 == replace(r2, word \o <<" ">>, digit \o <<" ">>)
         IN normalize_number_words(r3, k + 1)

\* lines 260-283: the contact entity
PhoneAt(k, normalized_input) ==
    Let(search(phone_patterns[k], normalized_input), LAMBDA match :
    Let(digits_only(group(normalized_input, match, 1)), LAMBDA phone :
        IF match.found /\ Len(phone) >= 10 THEN phone ELSE <<>>))
RECURSIVE PhoneFrom(_, _)
PhoneFrom(k, normalized_input) ==
    IF k > Len(phone_patterns) THEN <<>>
    ELSE Let(PhoneAt(k, normalized_input), LAMBDA phone :
            IF phone # <<>> THEN phone ELSE PhoneFrom(k + 1, normalized_input))
extract_contact(user_input_lower) ==
    Let(PhoneFrom(1, normalize_number_words(user_input_lower, 1)), LAMBDA phone :
    Let(search(email_pattern, user_input_lower), LAMBDA email_match :
        IF phone # <<>> THEN phone
        ELSE IF email_match.found THEN group0(user_input_lower, email_match)
        ELSE <<>>))

NoEntities == [date |-> <<>>, time |-> <<>>, guests |-> <<>>, reservation_id |-> <<>>,
               name |-> <<>>, contact |-> <<>>]
EntityKeys == {"date", "time", "guests", "reservation_id", "name", "contact"}
extract_entities(user_input, current_state) ==
    [date |-> extract_date(lower(user_input)),
     time |-> extract_time(lower(user_input)),
     guests |-> extract_guests(lower(user_input)),
     reservation_id |-> extract_reservation_id(user_input),
     name |-> extract_name(user_input, current_state),
     contact |-> extract_contact(lower(user_input))]

(***************************************************************************)
(* The Redis store, as the handlers see it.  A call has a session hash     *)
(* call_session:{sid} and a draft hash reservation_data:{sid}; a           *)
(* reservation is a hash reservation:{id}.  An absent field is the empty   *)
(* string/sequence, an absent retry counter is 0 (only values >= 1 are     *)
(* ever stored); a hash all of whose fields are absent does not exist.     *)
(***************************************************************************)
NoSession == [from_number |-> "", status |-> "", conversation_state |-> "", action_type |-> "",
              pending_contact |-> <<>>, pending_time |-> <<>>,
              date_retry_count |-> 0, time_retry_count |-> 0]
NoData == NoEntities

\* redis_client.hset / hdel on one hash
hset(hash, field, value) == [hash EXCEPT ![field] = value]
hdel(hash, field) ==
    [hash EXCEPT ![field] = IF field \in {"date_retry_count", "time_retry_count"} THEN 0
                            ELSE IF field \in {"pending_contact", "pending_time"} THEN <<>>
                            ELSE ""]

\* A turn works on w = [session, data, reservations, response]: the two
\* hashes of the call, the reservation hashes, and response_data.
get_conversation_state(session) ==
    IF session.conversation_state \in ConversationState THEN session.conversation_state
    ELSE INITIAL
set_conversation_state(w, state) ==
    [w EXCEPT !.session = hset(w.session, "conversation_state", state)]
get_reservation_data(w) == w.data
update_reservation_data(w, entities) ==
    [w EXCEPT !.data = [key \in EntityKeys |->
                            IF entities[key] # <<>> THEN entities[key] ELSE w.data[key]]]
\* response_data[...] = ... for the three fields every branch sets
respond(w, response_text, next_action, needs_more_info) ==
    [w EXCEPT !.response.response_text = response_text,
              !.response.next_action = next_action,
              !.response.needs_more_info = needs_more_info]
\* response_data['response_text'] = ... alone
say(w, response_text) == [w EXCEPT !.response.response_text = response_text]

(***************************************************************************)
(* DialogueFlowManager._validate_time_within_hours                         *)
(***************************************************************************)
\* the validation with the morning bound off by one (8 <= hour)
_validate_time_opens_at_eight(time_str) ==
    Let(strip(lower(time_str)), LAMBDA time_lower :
    Let(search(Grp(1, D12), time_lower), LAMBDA hour_match :
    Let(int(group(time_lower, hour_match, 1)), LAMBDA hour :
        IF ~hour_match.found THEN TRUE
        ELSE IF Contains(time_lower, S("am")) THEN 8 <= hour /\ hour <= 11
        ELSE IF Contains(time_lower, S("pm")) THEN hour = 12 \/ (1 <= hour /\ hour <= 10)
        ELSE TRUE)))

_validate_time_within_hours(time_str) ==
    Let(strip(lower(time_str)), LAMBDA time_lower :
    Let(search(Grp(1, D12), time_lower), LAMBDA hour_match :
    Let(int(group(time_lower, hour_match, 1)), LAMBDA hour :
        IF ~hour_match.found THEN TRUE
        ELSE IF Contains(time_lower, S("am")) THEN 9 <= hour /\ hour <= 11
        ELSE IF Contains(time_lower, S("pm")) THEN hour = 12 \/ (1 <= hour /\ hour <= 10)
        ELSE TRUE)))

(***************************************************************************)
(* DialogueFlowManager._handle_initial_state and _handle_other_states.     *)
(* A response text is the tuple of its template's name and the values      *)
(* interpolated into it.                                                   *)
(***************************************************************************)
_handle_initial_state(intent, response_data) ==
    CASE intent = MAKE_RESERVATION ->
            [response_data EXCEPT !.response_text = <<"ask_name">>,
                                  !.next_action = "collect_name",
                                  !.needs_more_info = TRUE]
      [] intent = CHECK_RESERVATION ->
            [response_data EXCEPT !.response_text = <<"ask_reservation_id_to_check">>,
                                  !.next_action = "collect_reservation_id",
                                  !.needs_more_info = TRUE,
                                  !.action_type = "check"]
      [] intent = CANCEL_RESERVATION ->
            [response_data EXCEPT !.response_text = <<"ask_reservation_id_to_cancel">>,
                                  !.next_action = "collect_reservation_id_for_cancel",
                                  !.needs_more_info = TRUE,
                                  !.action_type = "cancel"]
      [] intent = HELP -> [response_data EXCEPT !.response_text = <<"help">>]
      [] intent = GREETING -> [response_data EXCEPT !.response_text = <<"welcome">>]
      [] intent = GOODBYE ->
            [response_data EXCEPT !.response_text = <<"thank_you_for_calling">>,
                                  !.next_action = "hangup"]
      [] OTHER -> [response_data EXCEPT !.response_text = <<"did_not_understand">>]

\* the handler hanging up whatever the intent
_handle_other_states_always_hangs_up(intent, response_data) ==
    [response_data EXCEPT !.response_text = <<"thank_you_for_calling">>,
                          !.next_action = "hangup"]

_handle_other_states(intent, response_data) ==
    IF intent = GOODBYE
    THEN [response_data EXCEPT !.response_text = <<"thank_you_for_calling">>,
                               !.next_action = "hangup"]
    ELSE [response_data EXCEPT !.response_text = <<"anything_else">>]

(***************************************************************************)
(* DialogueFlowManager._handle_collecting_state, one operator per branch   *)
(* of its if/elif chain on current_state.                                  *)
(***************************************************************************)
\* lines 514-532
collecting_name(w, user_input, entities) ==
    Let(split(strip(user_input)), LAMBDA words :
    Let(SelectSeq(words, LAMBDA x : Len(x) > 1), LAMBDA kept :
    Let(join(Tup([i \in 1..Len(kept) |-> capitalize(kept[i])])), LAMBDA name :
        IF entities.name # <<>>
        THEN respond(set_conversation_state(w, COLLECTING_CONTACT),
                     <<"thank_you_ask_phone", entities.name>>, "collect_contact", TRUE)
        ELSE IF Len(words) >= 1
        THEN respond(set_conversation_state(
                         update_reservation_data(w, [NoEntities EXCEPT !.name = name]),
                         COLLECTING_CONTACT),
                     <<"thank_you_ask_phone", name>>, "collect_contact", TRUE)
        ELSE say(w, <<"name_not_caught">>))))

\* lines 318-338
digit_words == <<"zero", "one", "two", "three", "four", "five", "six", "seven", "eight", "nine">>
RECURSIVE join_with(_, _)
join_with(sep, words) ==
    IF words = <<>> THEN <<>>
    ELSE IF Len(words) = 1 THEN words[1]
    ELSE words[1] \o sep \o join_with(sep, Tail(words))
format_phone_for_speech(phone_number) ==
    Let(digits_only(phone_number), LAMBDA digits :
    Let(Tup([i \in 1..Len(digits) |-> S(digit_words[DigitVal(digits[i]) + 1])]), LAMBDA spoken :
        IF Len(digits) = 10
        THEN join(SubSeq(spoken, 1, 3)) \o S(", ") \o join(SubSeq(spoken, 4, 6)) \o S(", ")
             \o join(SubSeq(spoken, 7, 10))
        ELSE join_with(S(", "), spoken)))

\* lines 538-543, 556-560, 574-578: read the number back and keep it pending
confirm_contact(w, contact) ==
    respond([w EXCEPT !.session = hset(w.session, "pending_contact", contact)],
            <<"confirm_contact_prompt", format_phone_for_speech(contact)>>, "confirm_contact", TRUE)

FillerWords == <<"my", "phone", "number", "is", "contact", "reach", "me", "at">>
RECURSIVE remove_fillers(_, _)
remove_fillers(cleaned, k) ==
    IF k > Len(FillerWords) \/ cleaned = <<>> THEN cleaned
    ELSE remove_fillers(replace(cleaned, S(FillerWords[k]), <<" ">>), k + 1)
RECURSIVE replace_number_words(_, _)
replace_number_words(cleaned, k) ==
    IF k > Len(number_word_map) \/ cleaned = <<>> THEN cleaned
    ELSE replace_number_words(
            replace(cleaned, S(number_word_map[k][1]), S(number_word_map[k][2])), k + 1)
FirstN(q, n) == SubSeq(q, 1, IF Len(q) < n THEN Len(q) ELSE n)

\* lines 534-583
collecting_contact(w, user_input, entities) ==
    Let(remove_fillers(lower(user_input), 1), LAMBDA cleaned :
    Let(digits_only(cleaned), LAMBDA digits :
    Let(digits_only(replace_number_words(cleaned, 1)), LAMBDA digits_from_words :
    Let(IF entities.contact # <<>> THEN entities.contact
        ELSE IF Len(digits) >= 10 THEN FirstN(digits, 15)
        ELSE IF Len(digits_from_words) >= 10 THEN FirstN(digits_from_words, 15)
        ELSE <<>>, LAMBDA contact :
        IF contact # <<>> THEN confirm_contact(w, contact)
        ELSE [say(w, <<"phone_not_caught">>) EXCEPT !.response.needs_more_info = TRUE]))))

\* lines 585-638
month_pattern == Cat(<<WB, Grp(1, Months), Sp1, Grp(2, D12), Star(Cls(WordChars)), WB>>)
\* the date accepted without the hdel of date_retry_count
date_collected_keeps_retry_count(w, date) ==
    respond([w EXCEPT !.session = hset(w.session, "conversation_state", COLLECTING_TIME)],
            <<"reservation_for_ask_time", date>>, "collect_time", TRUE)

\* the date accepted and the question for the time skipped
date_collected_skips_time(w, date) ==
    respond([w EXCEPT !.session = hdel(hset(w.session, "conversation_state", COLLECTING_GUESTS),
                                       "date_retry_count")],
            <<"reservation_for_ask_time", date>>, "collect_time", TRUE)

\* lines 590-592, 605-607: on to the time, the retry counter deleted
date_collected(w, date) ==
    respond([w EXCEPT !.session = hdel(hset(w.session, "conversation_state", COLLECTING_TIME),
                                       "date_retry_count")],
            <<"reservation_for_ask_time", date>>, "collect_time", TRUE)
\* the COLLECTING_DATE branch with the first re-prompt at every retry
collecting_date_one_wording(w, user_input, entities) ==
    IF entities.date # <<>> THEN date_collected(w, entities.date)
    ELSE [say([w EXCEPT !.session = hset(w.session, "date_retry_count",
                                         w.session.date_retry_count + 1)],
              <<"date_not_caught">>)
             EXCEPT !.response.needs_more_info = TRUE]

collecting_date(w, user_input, entities) ==
    Let(w.session.date_retry_count + 1, LAMBDA retry_count :
    Let([w EXCEPT !.session = hset(w.session, "date_retry_count", retry_count)], LAMBDA counted :
    Let(search(month_pattern, lower(user_input)), LAMBDA match :
    Let(group(lower(user_input), match, 1) \o <<" ">> \o group(lower(user_input), match, 2),
        LAMBDA date_extracted :
        IF entities.date # <<>> THEN date_collected(w, entities.date)
        ELSE IF match.found
        THEN [date_collected(counted, date_extracted)
                 EXCEPT !.response.entities.date = date_extracted]
        ELSE [say(counted, IF retry_count = 1 THEN <<"date_not_caught">>
                           ELSE IF retry_count = 2 THEN <<"date_month_then_day">>
                           ELSE <<"date_still_trouble">>)
                 EXCEPT !.response.needs_more_info = TRUE]))))

\* the COLLECTING_TIME branch without its first case: an extracted time is
\* not accepted but asked again
collecting_time_ignores_entity(w, user_input, entities) ==
    [say([w EXCEPT !.session = hset(w.session, "time_retry_count",
                                    w.session.time_retry_count + 1)],
         <<"time_not_caught">>)
        EXCEPT !.response.needs_more_info = TRUE]

\* lines 640-725
\* the pattern that finds numbers of two digits only
number_pattern_of_two_digits == Cat(<<WB, Grp(1, Rep(D, 2, 2)), WB>>)

number_pattern == Cat(<<WB, Grp(1, D12), WB>>)
ampm_pattern == Cat(<<WB, Grp(1, AmPm), WB>>)
\* the time accepted without the hdel of time_retry_count
time_accepted_keeps_retry_count(w, time) ==
    respond([w EXCEPT !.session = hset(w.session, "conversation_state", COLLECTING_GUESTS)],
            <<"time_ask_guests", time>>, "collect_guests", TRUE)

\* lines 646-652, 678-683: on to the guests, the retry counter deleted
time_accepted(w, time) ==
    respond([w EXCEPT !.session = hdel(hset(w.session, "conversation_state", COLLECTING_GUESTS),
                                       "time_retry_count")],
            <<"time_ask_guests", time>>, "collect_guests", TRUE)
\* lines 653-657, 684-688
time_refused(w, time) ==
    [say(w, <<"only_open_9am_to_10pm", time>>) EXCEPT !.response.needs_more_info = TRUE]
collecting_time(w, user_input, entities) ==
    Let(w.session.time_retry_count + 1, LAMBDA retry_count :
    Let([w EXCEPT !.session = hset(w.session, "time_retry_count", retry_count)], LAMBDA counted :
    Let(search(number_pattern, lower(user_input)), LAMBDA number_match :
    Let(search(ampm_pattern, lower(user_input)), LAMBDA ampm_match :
    Let(int(group(lower(user_input), number_match, 1)), LAMBDA hour :
    Let(str(hour) \o <<" ">> \o group(lower(user_input), ampm_match, 1), LAMBDA with_ampm :
    Let(str(hour) \o S(" pm"), LAMBDA assumed_pm :
        IF entities.time # <<>>
        THEN IF _validate_time_within_hours(entities.time)
             THEN time_accepted(w, entities.time)
             ELSE time_refused(w, entities.time)
        ELSE IF number_match.found /\ ampm_match.found
        THEN IF _validate_time_within_hours(with_ampm)
             THEN [time_accepted(counted, with_ampm) EXCEPT !.response.entities.time = with_ampm]
             ELSE time_refused(counted, with_ampm)
        ELSE IF number_match.found
        THEN IF 1 <= hour /\ hour <= 12
             THEN IF hour >= 9
                  THEN [respond([counted EXCEPT !.session =
                                     hset(counted.session, "pending_time", assumed_pm)],
                                <<"confirm_time_prompt", assumed_pm>>, "confirm_time", TRUE)
                           EXCEPT !.response.entities.time = assumed_pm]
                  ELSE [say(counted, <<"morning_or_evening", str(hour)>>)
                           EXCEPT !.response.needs_more_info = TRUE]
             ELSE [say(counted, <<"not_a_valid_time", str(hour)>>)
                      EXCEPT !.response.needs_more_info = TRUE]
        ELSE [say(counted, IF retry_count = 1 THEN <<"time_not_caught">>
                           ELSE IF retry_count = 2 THEN <<"time_hour_then_ampm">>
                           ELSE <<"time_still_trouble">>)
                 EXCEPT !.response.needs_more_info = TRUE])))))))

\* lines 814-823
OrDefault(value, default) == IF value # <<>> THEN value ELSE S(default)
_format_reservation_confirmation(reservation_data) ==
    <<"confirm_details", OrDefault(reservation_data.name, "Customer"),
      OrDefault(reservation_data.date, "the selected date"),
      OrDefault(reservation_data.time, "the selected time"),
      OrDefault(reservation_data.guests, "N/A")>>

\* the COLLECTING_GUESTS branch with the summary's date and time swapped
collecting_guests_swaps_date_and_time(w, user_input, entities) ==
    IF entities.guests # <<>>
    THEN respond(set_conversation_state(w, CONFIRMING_RESERVATION),
                 <<"confirm_details", w.data.name, w.data.time, w.data.date, entities.guests>>,
                 "confirm_reservation", FALSE)
    ELSE say(w, <<"ask_guests_again">>)

\* lines 727-739
collecting_guests(w, user_input, entities) ==
    LET reservation_data == [get_reservation_data(w) EXCEPT !.guests = entities.guests]
    IN IF entities.guests # <<>>
       THEN respond(set_conversation_state(w, CONFIRMING_RESERVATION),
                    _format_reservation_confirmation(reservation_data),
                    "confirm_reservation", FALSE)
       ELSE say(w, <<"ask_guests_again">>)

_handle_collecting_state(w, current_state, user_input, entities) ==
    CASE current_state = COLLECTING_NAME -> collecting_name(w, user_input, entities)
      [] current_state = COLLECTING_CONTACT -> collecting_contact(w, user_input, entities)
      [] current_state = COLLECTING_DATE -> collecting_date(w, user_input, entities)
      [] current_state = COLLECTING_TIME -> collecting_time(w, user_input, entities)
      [] current_state = COLLECTING_GUESTS -> collecting_guests(w, user_input, entities)
      [] OTHER -> w

(***************************************************************************)
(* DialogueFlowManager._handle_reservation_id_state                        *)
(***************************************************************************)
\* the identifiers uuid4()[:8].upper() yields in this model
ReservationIds == {S("ABCD1234")}
NoReservations == [id \in ReservationIds |-> NoData]

exists(reservations, reservation_id) ==
    reservation_id \in DOMAIN reservations /\ reservations[reservation_id] # NoData
\* a delete that leaves the record in the store
delete_keeps_record(reservations, reservation_id) == reservations

delete(reservations, reservation_id) ==
    IF reservation_id \in DOMAIN reservations
    THEN [reservations EXCEPT ![reservation_id] = NoData]
    ELSE reservations

\* lines 752-787: the record is deleted or reported, reservation_exists
\* being what line 750 has read
cancel_or_report(w, reservation_id, action_type, reservation_exists) ==
    LET reservation_data == w.reservations[reservation_id]
    IN IF action_type = "cancel"
       THEN IF reservation_exists
            THEN respond([w EXCEPT !.reservations = delete(w.reservations, reservation_id)],
                         <<"cancelled", reservation_id>>, "complete", FALSE)
            ELSE [say(w, <<"not_found_to_cancel", reservation_id>>)
                     EXCEPT !.response.needs_more_info = TRUE]
       ELSE IF reservation_exists
            THEN respond(w, <<"found", reservation_id,
                              OrDefault(reservation_data.name, "N/A"),
                              OrDefault(reservation_data.date, "N/A"),
                              OrDefault(reservation_data.time, "N/A"),
                              OrDefault(reservation_data.guests, "N/A")>>, "complete", FALSE)
            ELSE respond(w, <<"not_found_to_check", reservation_id>>, "complete", FALSE)

\* lines 746-789: the branch taken once entities holds a reservation id
lookup_reservation(w, reservation_id, action_type) ==
    set_conversation_state(
        cancel_or_report(w, reservation_id, action_type, exists(w.reservations, reservation_id)),
        COMPLETED)

potential_id_pattern == Cat(<<WB, Grp(1, Rep(Cls(UpperSet \cup Digits), 4, 10)), WB>>)
\* the handler giving up, instead of asking again, when it finds no id
_handle_reservation_id_state_gives_up(w, user_input, entities, action_type) ==
    Let(search(potential_id_pattern, upper(user_input)), LAMBDA potential_id :
    Let(IF entities.reservation_id # <<>> THEN entities.reservation_id
        ELSE IF potential_id.found THEN group(upper(user_input), potential_id, 1)
        ELSE <<>>, LAMBDA reservation_id :
        IF reservation_id # <<>>
        THEN lookup_reservation([w EXCEPT !.response.entities.reservation_id = reservation_id],
                                upper(reservation_id), action_type)
        ELSE say(set_conversation_state(w, COMPLETED), <<"reservation_id_not_caught">>)))

_handle_reservation_id_state(w, user_input, entities, action_type) ==
    Let(search(potential_id_pattern, upper(user_input)), LAMBDA potential_id :
    Let(IF entities.reservation_id # <<>> THEN entities.reservation_id
        ELSE IF potential_id.found THEN group(upper(user_input), potential_id, 1)
        ELSE <<>>, LAMBDA reservation_id :
        IF reservation_id # <<>>
        THEN lookup_reservation([w EXCEPT !.response.entities.reservation_id = reservation_id],
                                upper(reservation_id), action_type)
        ELSE [say(w, <<"reservation_id_not_caught">>) EXCEPT !.response.needs_more_info = TRUE]))

(***************************************************************************)
(* The utterances of the model, and the recognizer's answers for them      *)
(* (each computed once).                                                   *)
(***************************************************************************)
Utterances == {S("I'd like to book a table"), S("check my reservation"),
               S("cancel my reservation"), S("hello"), S("bye"),
               S("John Smith"), S("555-123-4567"), S("yes"), S("incorrect"),
               S("today"), S("7pm"), S("7"), S("uh 9"), S("4"), S("ABCD1234"),
               S("help"), S("um"), S("november twentieth"), S("11pm"), S("pm 8"), S("I"),
               S("uh 7"), S("november 2024"), S("ABCD1234 cancel")}
AllUtterances == Utterances

recognized == [u \in AllUtterances |-> recognize_intent(u)]
extracted == [u \in AllUtterances |->
                [state \in {COLLECTING_NAME, INITIAL} |-> extract_entities(u, state)]]

(***************************************************************************)
(* DialogueFlowManager.process_user_input                                  *)
(***************************************************************************)
confirmation_words == <<"yes", "yeah", "yep", "correct", "right", "that's right",
                        "that is correct", "yup">>
rejection_words == <<"no", "nope", "incorrect", "wrong", "try again", "that's wrong">>
\* any(word in user_input_lower for word in words)
any_word_in(words, user_input_lower) ==
    \E i \in 1..Len(words) : Contains(user_input_lower, S(words[i]))

\* the confirmation of a pending contact without the hdel of line 415
contact_confirmation_keeps_pending(w, current_state, user_input, entities, pending_contact) ==
    LET user_input_lower == lower(user_input)
        saved == update_reservation_data(w, [NoEntities EXCEPT !.contact = pending_contact])
    IN IF any_word_in(confirmation_words, user_input_lower)
       THEN respond(set_conversation_state(saved, COLLECTING_DATE),
                    <<"ask_date">>, "collect_date", TRUE)
       ELSE IF any_word_in(rejection_words, user_input_lower)
       THEN respond([w EXCEPT !.session = hdel(w.session, "pending_contact")],
                    <<"say_phone_again">>, "collect_contact", TRUE)
       ELSE _handle_collecting_state(w, current_state, user_input, entities)

\* lines 407-430: a contact is pending and the state is COLLECTING_CONTACT
contact_confirmation(w, current_state, user_input, entities, pending_contact) ==
    LET user_input_lower == lower(user_input)
        saved == update_reservation_data(w, [NoEntities EXCEPT !.contact = pending_contact])
        cleared == [saved EXCEPT !.session = hdel(saved.session, "pending_contact")]
    IN IF any_word_in(confirmation_words, user_input_lower)
       THEN respond(set_conversation_state(cleared, COLLECTING_DATE),
                    <<"ask_date">>, "collect_date", TRUE)
       ELSE IF any_word_in(rejection_words, user_input_lower)
       THEN respond([w EXCEPT !.session = hdel(w.session, "pending_contact")],
                    <<"say_phone_again">>, "collect_contact", TRUE)
       ELSE _handle_collecting_state(w, current_state, user_input, entities)

\* lines 432-458: the state is COLLECTING_TIME
time_confirmation(w, current_state, user_input, entities) ==
    LET pending_time == w.session.pending_time
        user_input_lower == lower(user_input)
        saved == update_reservation_data(w, [NoEntities EXCEPT !.time = pending_time])
        \* line 434: the guard of the whole confirmation
        asked == pending_time # <<>> /\ w.response.next_action = "confirm_time"
    IN IF asked /\ any_word_in(confirmation_words, user_input_lower)
       THEN respond([saved EXCEPT !.session =
                        hdel(hdel(hset(saved.session, "conversation_state", COLLECTING_GUESTS),
                                  "pending_time"), "time_retry_count")],
                    <<"perfect_time_ask_guests", pending_time>>, "collect_guests", TRUE)
       ELSE IF asked /\ any_word_in(rejection_words, user_input_lower)
       THEN respond([w EXCEPT !.session = hdel(w.session, "pending_time")],
                    <<"say_time_again">>, "collect_time", TRUE)
       ELSE _handle_collecting_state(w, current_state, user_input, entities)

\* an action type stored whatever the intent
store_action_type_for_any_intent(w, intent) ==
    [w EXCEPT !.session = hset(w.session, "action_type",
                               IF intent = CANCEL_RESERVATION THEN "cancel" ELSE "check")]

\* lines 393-397
store_action_type(w, intent) ==
    IF intent = CHECK_RESERVATION
    THEN [w EXCEPT !.session = hset(w.session, "action_type", "check")]
    ELSE IF intent = CANCEL_RESERVATION
    THEN [w EXCEPT !.session = hset(w.session, "action_type", "cancel")]
    ELSE w

\* lines 399-466
dispatch(w, current_state, intent, user_input, entities) ==
    IF current_state = INITIAL
    THEN [w EXCEPT !.response = _handle_initial_state(intent, w.response)]
    ELSE IF current_state \in {COLLECTING_NAME, COLLECTING_CONTACT, COLLECTING_DATE,
                               COLLECTING_TIME, COLLECTING_GUESTS}
    THEN IF w.session.pending_contact # <<>> /\ current_state = COLLECTING_CONTACT
         THEN contact_confirmation(w, current_state, user_input, entities,
                                   w.session.pending_contact)
         ELSE IF current_state = COLLECTING_TIME
         THEN time_confirmation(w, current_state, user_input, entities)
         ELSE _handle_collecting_state(w, current_state, user_input, entities)
    ELSE IF current_state = COLLECTING_RESERVATION_ID
    THEN _handle_reservation_id_state(w, user_input, entities, w.session.action_type)
    ELSE [w EXCEPT !.response = _handle_other_states(intent, w.response)]

\* store = [session, data, reservations]; the result carries the new store
\* and response_data
\* lines 379-381
store_entities(w, entities) ==
    IF entities # NoEntities THEN update_reservation_data(w, entities) ELSE w
process_user_input(store, user_input) ==
    Let(get_conversation_state(store.session), LAMBDA current_state :
    Let(recognized[user_input], LAMBDA intent :
    Let(extracted[user_input][IF current_state = COLLECTING_NAME
                              THEN COLLECTING_NAME ELSE INITIAL], LAMBDA entities :
    Let([intent |-> intent.intent, confidence |-> intent.confidence, entities |-> entities,
         current_state |-> current_state, response_text |-> <<>>,
         next_action |-> "", needs_more_info |-> FALSE, action_type |-> ""],
        LAMBDA response_data :
        dispatch(store_action_type(
                    store_entities([session |-> store.session, data |-> store.data,
                                    reservations |-> store.reservations,
                                    response |-> response_data], entities),
                    intent.intent),
                 current_state, intent.intent, user_input, entities)))))

(***************************************************************************)
(* backend.py: the webhook handlers that touch the store                   *)
(***************************************************************************)
\* lines 62-65
store_call_session(session, from_number) ==
    hset(hset(session, "from_number", from_number), "status", "in-progress")

\* lines 67-77; reservation_id is the identifier uuid4 produced
save_reservation(w, reservation_id) ==
    LET reservation_data == get_reservation_data(w)
        old == w.reservations[reservation_id]
        copied == [key \in EntityKeys |->
                      IF reservation_data[key] # <<>> THEN reservation_data[key] ELSE old[key]]
    IN IF reservation_data # NoData
       THEN [w EXCEPT !.reservations[reservation_id] =
                            hset(copied, "reservation_id", reservation_id)]
       ELSE w

\* lines 316-350: what handle_conversational_gather does with the result
after_turn(w, reservation_id) ==
    IF w.response.next_action = "hangup" THEN w
    ELSE IF w.response.needs_more_info THEN w
    ELSE IF w.response.next_action = "confirm_reservation" THEN save_reservation(w, reservation_id)
    ELSE w

(***************************************************************************)
(* State                                                                   *)
(***************************************************************************)
Calls == {"CA1"}
FromNumber == "+15550100"
\* the retry counters are followed up to this value
MaxRetries == 3

VARIABLES
    session,        \* call_session:{sid}, per call
    data,           \* reservation_data:{sid}, per call
    reservations,   \* reservation:{id}, per identifier
    line,           \* per call, the webhook the last TwiML response told Twilio to request next
    heard,          \* per call, the question the caller has last been asked
    last,           \* the last request handled: its handler, inputs, the store before it, its result
    script,         \* per call, how many turns of BookingScript the caller has said, all in a row
    arg,            \* the argument a pure function of the program is applied to
    result,         \* <<>> before the function is applied, <<value>> after
    turns           \* per request in flight, its inputs, its position in process_user_input and its locals
vars == <<session, data, reservations, line, heard, last, script, arg, result, turns>>

NoResponse == [intent |-> UNKNOWN, confidence |-> 0, entities |-> NoEntities,
               current_state |-> "", response_text |-> <<>>, next_action |-> "",
               needs_more_info |-> FALSE, action_type |-> ""]
NoLast == [handler |-> "", call |-> "", user_input |-> <<>>,
           before |-> [session |-> NoSession, data |-> NoData, reservations |-> NoReservations],
           response |-> NoResponse]

\* the dialogue of a caller who books a table, one utterance per turn
BookingScript == <<S("I'd like to book a table"), S("John Smith"), S("555-123-4567"), S("yes"),
                   S("today"), S("7pm"), S("4")>>

\* the record an earlier call that followed BookingScript after pressing 1
\* has left under the identifier ABCD1234
EarlierReservation ==
    [NoData EXCEPT !.name = S("John Smith"), !.contact = S("5551234567"), !.date = S("today"),
                   !.time = S("4"), !.guests = S("4"), !.reservation_id = S("ABCD1234")]

Init ==
    /\ session = [c \in Calls |-> NoSession]
    /\ data = [c \in Calls |-> NoData]
    /\ reservations \in {NoReservations, [NoReservations EXCEPT ![S("ABCD1234")] = EarlierReservation]}
    /\ line = [c \in Calls |-> "idle"]
    /\ heard = [c \in Calls |-> ""]
    /\ last = NoLast
    /\ script = [c \in Calls |-> 0]
    /\ arg = <<>>
    /\ result = <<>>
    /\ turns = <<>>

Before(c) == [session |-> session[c], data |-> data[c], reservations |-> reservations]
Handled(handler, c, user_input) ==
    last' = [handler |-> handler, call |-> c, user_input |-> user_input,
             before |-> Before(c), response |-> NoResponse]

\* lines 95-119: the call is answered with the DTMF menu, which posts to /twilio/gather
handle_incoming_call(c) ==
    /\ line[c] = "idle"
    /\ session' = [session EXCEPT ![c] = store_call_session(session[c], FromNumber)]
    /\ line' = [line EXCEPT ![c] = "/twilio/gather"]
    /\ heard' = [heard EXCEPT ![c] = "menu"]
    /\ Handled("handle_incoming_call", c, <<>>)
    /\ UNCHANGED <<data, reservations, script, arg, result, turns>>

\* lines 122-164, Digits = 1 or 2: the caller goes on by speech
handle_gather(c, digits) ==
    /\ line[c] = "/twilio/gather"
    /\ digits \in {"1", "2"}
    /\ session' = [session EXCEPT ![c] =
                      IF digits = "1"
                      THEN hset(hset(session[c], "conversation_state", INITIAL),
                                "conversation_state", COLLECTING_NAME)
                      ELSE hset(hset(session[c], "conversation_state", COLLECTING_RESERVATION_ID),
                                "action_type", "check")]
    /\ line' = [line EXCEPT ![c] = "/twilio/conversational_gather"]
    /\ heard' = [heard EXCEPT ![c] = IF digits = "1" THEN "collect_name" ELSE "collect_reservation_id"]
    /\ Handled("handle_gather", c, S(digits))
    /\ UNCHANGED <<data, reservations, script, arg, result, turns>>

\* lines 167-177: the call is answered with the reservation menu
reservation_menu(c) ==
    /\ line[c] = "idle"
    /\ line' = [line EXCEPT ![c] = "/twilio/reservation_option"]
    /\ heard' = [heard EXCEPT ![c] = "menu"]
    /\ Handled("reservation_menu", c, <<>>)
    /\ UNCHANGED <<session, data, reservations, script, arg, result, turns>>

\* lines 180-222, Digits = 1 or 2
reservation_option(c, digits) ==
    /\ line[c] = "/twilio/reservation_option"
    /\ digits \in {"1", "2"}
    /\ session' = [session EXCEPT ![c] =
                      IF digits = "1"
                      THEN hset(hset(session[c], "conversation_state", INITIAL),
                                "conversation_state", COLLECTING_NAME)
                      ELSE hset(hset(session[c], "conversation_state", COLLECTING_RESERVATION_ID),
                                "action_type", "cancel")]
    /\ line' = [line EXCEPT ![c] = "/twilio/conversational_gather"]
    /\ heard' = [heard EXCEPT ![c] = IF digits = "1" THEN "collect_name" ELSE "collect_reservation_id"]
    /\ Handled("reservation_option", c, S(digits))
    /\ UNCHANGED <<data, reservations, script, arg, result, turns>>

\* lines 257-293: the call is answered by the conversational greeting
handle_conversational_call(c) ==
    /\ line[c] = "idle"
    /\ session' = [session EXCEPT ![c] =
                      hset(store_call_session(session[c], FromNumber), "conversation_state", INITIAL)]
    /\ line' = [line EXCEPT ![c] = "/twilio/conversational_gather"]
    /\ heard' = [heard EXCEPT ![c] = "welcome"]
    /\ Handled("handle_conversational_call", c, <<>>)
    /\ UNCHANGED <<data, reservations, script, arg, result, turns>>

\* the caller's progress through BookingScript: every turn of the call so
\* far has said the next utterance of the script, the first one in INITIAL
Progress(c, user_input) ==
    IF script[c] < Len(BookingScript) /\ user_input = BookingScript[script[c] + 1]
       /\ (script[c] >= 1 \/ (last.handler = "handle_conversational_call" /\ last.call = c))
    THEN script[c] + 1
    ELSE 0

\* lines 316-350: the TwiML answer ends with hangup unless it gathers again
NextRequest(response) ==
    IF response.next_action = "hangup" THEN "hungup"
    ELSE IF response.needs_more_info THEN "/twilio/conversational_gather"
    ELSE "hungup"

\* What a caller says in answer to the question just heard: a value of the
\* kind asked for, or a greeting or a goodbye at any time.
Says(question) ==
    {S("hello"), S("bye")} \cup
    CASE question = "collect_name" -> {S("John Smith"), S("I")}
      [] question = "collect_contact" -> {S("555-123-4567")}
      [] question = "confirm_contact" -> {S("yes"), S("incorrect")}
      [] question = "collect_date" -> {S("today"), S("november twentieth"), S("november 2024")}
      [] question = "collect_time" ->
            {S("7pm"), S("7"), S("uh 9"), S("11pm"), S("pm 8"), S("uh 7")}
      [] question = "confirm_time" -> {S("yes"), S("incorrect"), S("7pm"), S("uh 7")}
      [] question = "collect_guests" -> {S("4")}
      [] question \in {"collect_reservation_id", "collect_reservation_id_for_cancel"} ->
            {S("ABCD1234"), S("ABCD1234 cancel")}
      [] OTHER -> {S("I'd like to book a table"), S("check my reservation"),
                   S("cancel my reservation"), S("help"), S("um")}

\* the question the caller is left with: a re-prompt that names no next
\* action repeats the question asked before
Question(c, response) ==
    IF response.next_action = "" THEN heard[c] ELSE response.next_action

\* lines 297-352
handle_conversational_gather(c, user_input) ==
    /\ line[c] = "/twilio/conversational_gather"
    /\ user_input \in Says(heard[c])
    /\ \E reservation_id \in ReservationIds :
       \E w \in {after_turn(process_user_input(Before(c), user_input), reservation_id)} :
        /\ w.session.date_retry_count <= MaxRetries
        /\ w.session.time_retry_count <= MaxRetries
        /\ session' = [session EXCEPT ![c] = w.session]
        /\ data' = [data EXCEPT ![c] = w.data]
        /\ reservations' = w.reservations
        /\ line' = [line EXCEPT ![c] = NextRequest(w.response)]
        /\ heard' = [heard EXCEPT ![c] = Question(c, w.response)]
        /\ UNCHANGED <<arg, result, turns>>
        /\ last' = [handler |-> "handle_conversational_gather", call |-> c,
                    user_input |-> user_input, before |-> Before(c), response |-> w.response]
        /\ script' = [script EXCEPT ![c] = Progress(c, user_input)]

Next ==
    \/ \E c \in Calls : handle_incoming_call(c)
    \/ \E c \in Calls, digits \in {"1", "2"} : handle_gather(c, digits)
    \/ \E c \in Calls : reservation_menu(c)
    \/ \E c \in Calls, digits \in {"1", "2"} : reservation_option(c, digits)
    \/ \E c \in Calls : handle_conversational_call(c)
    \/ \E c \in Calls, u \in Utterances : handle_conversational_gather(c, u)

Spec == Init /\ [][Next]_vars

(***************************************************************************)
(* _validate_time_within_hours on its own: a time string is drawn, then    *)
(* validated.                                                              *)
(***************************************************************************)
\* hours are drawn from 0..MaxHour
MaxHour == 23
Meridiems == {"", "am", "pm"}
\* the ways an hour and a meridiem are written
TimeFormats == {"7pm", "7 pm", "7:30 pm", "at 7 pm"}
time_string(hour, meridiem, format) ==
    LET m == IF meridiem = "" THEN <<>>
             ELSE IF format = "7pm" THEN S(meridiem)
             ELSE <<" ">> \o S(meridiem)
    IN (IF format = "at 7 pm" THEN S("at ") ELSE <<>>) \o str(hour)
       \o (IF format = "7:30 pm" THEN S(":30") ELSE <<>>) \o m

InitTime ==
    /\ session = [c \in Calls |-> NoSession]
    /\ data = [c \in Calls |-> NoData]
    /\ reservations = NoReservations
    /\ line = [c \in Calls |-> "idle"]
    /\ heard = [c \in Calls |-> ""]
    /\ last = NoLast
    /\ script = [c \in Calls |-> 0]
    /\ \E hour \in 0..MaxHour, meridiem \in Meridiems, format \in TimeFormats :
          arg = [hour |-> hour, meridiem |-> meridiem,
                 time_str |-> time_string(hour, meridiem, format)]
    /\ result = <<>>
    /\ turns = <<>>

validate_time ==
    /\ result = <<>>
    /\ result' = <<_validate_time_within_hours(arg.time_str)>>
    /\ UNCHANGED <<session, data, reservations, line, heard, last, script, arg, turns>>

NextTime == validate_time

SpecTime == InitTime /\ [][NextTime]_vars

(***************************************************************************)
(* extract_entities on its own, for the guests entity: an utterance with   *)
(* one number is drawn, then its entities are extracted.                   *)
(***************************************************************************)
\* guest counts are drawn from 0..MaxGuestNumber
MaxGuestNumber == 25
\* the ways a number of guests is said; "04" has a leading zero, "400" is the
\* hundredfold number
GuestFormats == {"4", "table for 4", "4 people", "04", "400"}
guest_number(n, format) == IF format = "400" THEN 100 * n ELSE n
guest_string(n, format) ==
    CASE format = "4" -> str(n)
      [] format = "table for 4" -> S("table for ") \o str(n)
      [] format = "4 people" -> str(n) \o S(" people")
      [] format = "04" -> S("0") \o str(n)
      [] format = "400" -> str(n) \o S("00")

InitGuests ==
    /\ session = [c \in Calls |-> NoSession]
    /\ data = [c \in Calls |-> NoData]
    /\ reservations = NoReservations
    /\ line = [c \in Calls |-> "idle"]
    /\ heard = [c \in Calls |-> ""]
    /\ last = NoLast
    /\ script = [c \in Calls |-> 0]
    /\ \E n \in 0..MaxGuestNumber, format \in GuestFormats :
          arg = [number |-> guest_number(n, format), user_input |-> guest_string(n, format)]
    /\ result = <<>>
    /\ turns = <<>>

extract_guests_entity ==
    /\ result = <<>>
    /\ result' = <<extract_entities(arg.user_input, INITIAL).guests>>
    /\ UNCHANGED <<session, data, reservations, line, heard, last, script, arg, turns>>

NextGuests == extract_guests_entity

SpecGuests == InitGuests /\ [][NextGuests]_vars

(***************************************************************************)
(* extract_entities on its own, for an utterance with two numbers: a time  *)
(* of day, then a table or a reservation for a number of guests.           *)
(***************************************************************************)
TablePhrases == {"table for", "reservation for"}
table_string(earlier, phrase, n) ==
    S("at ") \o str(earlier) \o S(" a ") \o S(phrase) \o S(" ") \o str(n)

InitTableFor ==
    /\ session = [c \in Calls |-> NoSession]
    /\ data = [c \in Calls |-> NoData]
    /\ reservations = NoReservations
    /\ line = [c \in Calls |-> "idle"]
    /\ heard = [c \in Calls |-> ""]
    /\ last = NoLast
    /\ script = [c \in Calls |-> 0]
    /\ \E earlier \in 0..MaxHour, phrase \in TablePhrases, n \in 0..MaxGuestNumber :
          arg = [number |-> n, earlier |-> earlier,
                 user_input |-> table_string(earlier, phrase, n)]
    /\ result = <<>>
    /\ turns = <<>>

NextTableFor == extract_guests_entity

SpecTableFor == InitTableFor /\ [][NextTableFor]_vars

(***************************************************************************)
(* process_user_input on its own in the states after the collection: a     *)
(* store left by a finished dialogue and an utterance are drawn, then the   *)
(* utterance is processed, and processed again.                             *)
(***************************************************************************)
\* the draft of a call that has followed BookingScript after pressing 1
BookedDraft ==
    [NoData EXCEPT !.name = S("John Smith"), !.contact = S("5551234567"), !.date = S("today"),
                   !.time = S("4"), !.guests = S("4")]
\* the session and draft of a call whose booking awaits confirmation, and of
\* a call whose lookup or cancellation of ABCD1234 is over
FinishedCalls ==
    {[session |-> [NoSession EXCEPT !.from_number = FromNumber, !.status = "in-progress",
                                    !.conversation_state = CONFIRMING_RESERVATION],
      data |-> BookedDraft]}
    \cup {[session |-> [NoSession EXCEPT !.from_number = FromNumber, !.status = "in-progress",
                                         !.conversation_state = COMPLETED,
                                         !.action_type = action_type],
           data |-> [NoData EXCEPT !.reservation_id = S("ABCD1234")]] :
              action_type \in {"check", "cancel"}}

InitOther ==
    /\ session = [c \in Calls |-> NoSession]
    /\ data = [c \in Calls |-> NoData]
    /\ reservations = NoReservations
    /\ line = [c \in Calls |-> "idle"]
    /\ heard = [c \in Calls |-> ""]
    /\ last = NoLast
    /\ script = [c \in Calls |-> 0]
    /\ \E call \in FinishedCalls, user_input \in Utterances,
          records \in {NoReservations,
                       [NoReservations EXCEPT ![S("ABCD1234")] = EarlierReservation]} :
          arg = [store |-> [session |-> call.session, data |-> call.data,
                            reservations |-> records],
                 user_input |-> user_input]
    /\ result = <<>>
    /\ turns = <<>>

\* the utterance is processed
process_once ==
    /\ result = <<>>
    /\ result' = <<process_user_input(arg.store, arg.user_input)>>
    /\ UNCHANGED <<session, data, reservations, line, heard, last, script, arg, turns>>

\* the same utterance is processed again, on the store the first turn left
process_again ==
    /\ Len(result) = 1
    /\ result' = result \o <<process_user_input(
                                [session |-> result[1].session, data |-> result[1].data,
                                 reservations |-> result[1].reservations],
                                arg.user_input)>>
    /\ UNCHANGED <<session, data, reservations, line, heard, last, script, arg, turns>>

NextOther == process_once \/ process_again

SpecOther == InitOther /\ [][NextOther]_vars

(***************************************************************************)
(* recognize_intent on its own: an utterance is put together from phrases, *)
(* then recognized.                                                        *)
(***************************************************************************)
\* an utterance is made of at most MaxPhrases phrases
MaxPhrases == 2
Phrases == <<"book", "table for two", "book a table", "check my reservation",
             "what is my reservation", "cancel", "cancel my booking", "Hello", "help", "bye",
             "um", "excuse me">>
PhraseLists == UNION {[1..n -> 1..Len(Phrases)] : n \in 0..MaxPhrases}
\* the phrases said one after the other
phrase_string(phrases) == join(Tup([i \in 1..Len(phrases) |-> S(Phrases[phrases[i]])]))

InitIntent ==
    /\ session = [c \in Calls |-> NoSession]
    /\ data = [c \in Calls |-> NoData]
    /\ reservations = NoReservations
    /\ line = [c \in Calls |-> "idle"]
    /\ heard = [c \in Calls |-> ""]
    /\ last = NoLast
    /\ script = [c \in Calls |-> 0]
    /\ \E phrases \in PhraseLists :
          arg = [phrases |-> Tup(phrases), user_input |-> phrase_string(Tup(phrases))]
    /\ result = <<>>
    /\ turns = <<>>

\* the utterance is recognized; intent_scores is kept next to the answer
\* (0: the intent has no entry)
recognize ==
    /\ result = <<>>
    /\ result' = <<[answer |-> recognize_intent(arg.user_input),
                    intent_scores |-> Tup([k \in 1..Len(IntentOrder) |->
                        intent_score(IntentOrder[k], strip(lower(arg.user_input)))])]>>
    /\ UNCHANGED <<session, data, reservations, line, heard, last, script, arg, turns>>

NextIntent == recognize

SpecIntent == InitIntent /\ [][NextIntent]_vars

(***************************************************************************)
(* extract_entities on its own, for the contact entity: a telephone number *)
(* is said in one of several ways, then the entities are extracted.        *)
(***************************************************************************)
\* the numbers 555 123 4560 to 555 123 4569
PhoneNumbers == {S("555123456") \o <<last_digit>> : last_digit \in Digits}
\* the ways a telephone number is said: its digits in a row, in groups, one
\* by one, or spelled out
PhoneFormats == {"5551234567", "555-123-4567", "555 123 4567", "(555) 123-4567",
                 "5 5 5 1 2 3 4 5 6 7", "five five five one two three four five six seven"}
PhoneLeadIns == {"", "my number is "}
phone_string(number, format) ==
    CASE format = "5551234567" -> number
      [] format = "555-123-4567" ->
            SubSeq(number, 1, 3) \o S("-") \o SubSeq(number, 4, 6) \o S("-") \o SubSeq(number, 7, 10)
      [] format = "555 123 4567" ->
            SubSeq(number, 1, 3) \o S(" ") \o SubSeq(number, 4, 6) \o S(" ") \o SubSeq(number, 7, 10)
      [] format = "(555) 123-4567" ->
            S("(") \o SubSeq(number, 1, 3) \o S(") ") \o SubSeq(number, 4, 6) \o S("-")
            \o SubSeq(number, 7, 10)
      [] format = "5 5 5 1 2 3 4 5 6 7" -> join(Tup([i \in 1..Len(number) |-> <<number[i]>>]))
      [] format = "five five five one two three four five six seven" ->
            join(Tup([i \in 1..Len(number) |-> S(digit_words[DigitVal(number[i]) + 1])]))

InitContact ==
    /\ session = [c \in Calls |-> NoSession]
    /\ data = [c \in Calls |-> NoData]
    /\ reservations = NoReservations
    /\ line = [c \in Calls |-> "idle"]
    /\ heard = [c \in Calls |-> ""]
    /\ last = NoLast
    /\ script = [c \in Calls |-> 0]
    /\ \E number \in PhoneNumbers, format \in PhoneFormats, lead_in \in PhoneLeadIns :
          arg = [number |-> number, format |-> format,
                 user_input |-> S(lead_in) \o phone_string(number, format)]
    /\ result = <<>>
    /\ turns = <<>>

extract_contact_entity ==
    /\ result = <<>>
    /\ result' = <<extract_entities(arg.user_input, COLLECTING_CONTACT).contact>>
    /\ UNCHANGED <<session, data, reservations, line, heard, last, script, arg, turns>>

NextContact == extract_contact_entity

SpecContact == InitContact /\ [][NextContact]_vars

(***************************************************************************)
(* Requests in flight together.  Two requests to /twilio/conversational_   *)
(* gather are handled by two workers that share nothing but the store:     *)
(* each takes the steps of process_user_input one store operation at a     *)
(* time, and the steps of the two interleave.  A turn that finds the state *)
(* CollectingDate or CollectingReservationId is followed operation by      *)
(* operation; the branch of any other state is taken in one step.          *)
(***************************************************************************)
Requests == {1, 2}
CallsInFlight == {"CA1", "CA2"}
InFlightUtterances == {S("um"), S("today"), S("ABCD1234")}
\* the session and draft of a call that is asked for the date, after no or
\* one unrecognized date, and of a call that is asked for the id to cancel
CallsInProgress ==
    {[session |-> [NoSession EXCEPT !.from_number = FromNumber, !.status = "in-progress",
                                    !.conversation_state = COLLECTING_DATE,
                                    !.date_retry_count = retries],
      data |-> [NoData EXCEPT !.name = S("John Smith"), !.contact = S("5551234567")]] :
        retries \in 0..1}
    \cup {[session |-> [NoSession EXCEPT !.from_number = FromNumber, !.status = "in-progress",
                                         !.conversation_state = COLLECTING_RESERVATION_ID,
                                         !.action_type = "cancel"],
           data |-> NoData]}

\* the request as it arrives: CallSid, SpeechResult, and the locals of
\* process_user_input not yet assigned
Received(call_sid, user_input) ==
    [call_sid |-> call_sid, user_input |-> user_input, pc |-> "get_conversation_state",
     retry_count |-> 0, action_type |-> "", reservation_exists |-> FALSE,
     response_data |-> NoResponse]

InitInFlight ==
    /\ \E in_progress \in [CallsInFlight -> CallsInProgress] :
        /\ session = [c \in CallsInFlight |-> in_progress[c].session]
        /\ data = [c \in CallsInFlight |-> in_progress[c].data]
    /\ reservations \in {NoReservations, [NoReservations EXCEPT ![S("ABCD1234")] = EarlierReservation]}
    /\ line = [c \in CallsInFlight |-> "/twilio/conversational_gather"]
    /\ heard = [c \in CallsInFlight |-> ""]
    /\ last = NoLast
    /\ script = [c \in CallsInFlight |-> 0]
    /\ arg = [session |-> session, data |-> data, reservations |-> reservations]
    /\ result = <<>>
    /\ \E call_sid \in CallsInFlight, first \in InFlightUtterances, second \in InFlightUtterances :
          turns = <<Received("CA1", first), Received(call_sid, second)>>

\* the store as the request r sees it at this moment, with its response_data
Seen(r) ==
    [session |-> session[turns[r].call_sid], data |-> data[turns[r].call_sid],
     reservations |-> reservations, response |-> turns[r].response_data]
\* the request r moves on to pc with the response_data
Goes(r, pc, response_data) ==
    turns' = [turns EXCEPT ![r].pc = pc, ![r].response_data = response_data]

\* lines 375-377, 383-391: the state is read, the utterance classified
read_conversation_state(r) ==
    /\ turns[r].pc = "get_conversation_state"
    /\ Let(get_conversation_state(session[turns[r].call_sid]), LAMBDA current_state :
       Let(recognized[turns[r].user_input], LAMBDA intent :
       Let(extracted[turns[r].user_input][IF current_state = COLLECTING_NAME
                                          THEN COLLECTING_NAME ELSE INITIAL], LAMBDA entities :
            Goes(r, "update_reservation_data",
                 [intent |-> intent.intent, confidence |-> intent.confidence,
                  entities |-> entities, current_state |-> current_state,
                  response_text |-> <<>>, next_action |-> "", needs_more_info |-> FALSE,
                  action_type |-> ""]))))
    /\ UNCHANGED <<session, data, reservations, line, heard, last, script, arg, result>>

\* the entities written into the draft of every call in flight
write_entities_of_every_call(r) ==
    /\ turns[r].pc = "update_reservation_data"
    /\ data' = [c \in CallsInFlight |->
                    update_reservation_data([data |-> data[c]], turns[r].response_data.entities).data]
    /\ Goes(r, "store_action_type", turns[r].response_data)
    /\ UNCHANGED <<session, reservations, line, heard, last, script, arg, result>>

\* lines 379-381: the entities are written into the draft
write_entities(r) ==
    /\ turns[r].pc = "update_reservation_data"
    /\ data' = [data EXCEPT ![turns[r].call_sid] =
                    store_entities(Seen(r), turns[r].response_data.entities).data]
    /\ Goes(r, "store_action_type", turns[r].response_data)
    /\ UNCHANGED <<session, reservations, line, heard, last, script, arg, result>>

\* lines 393-403: the action type is written, the branch of the state chosen
write_action_type(r) ==
    /\ turns[r].pc = "store_action_type"
    /\ session' = [session EXCEPT ![turns[r].call_sid] =
                      store_action_type(Seen(r), turns[r].response_data.intent).session]
    /\ Goes(r, IF turns[r].response_data.current_state = COLLECTING_RESERVATION_ID
               THEN "hget_action_type"
               ELSE IF turns[r].response_data.current_state # COLLECTING_DATE THEN "dispatch"
               ELSE IF turns[r].response_data.entities.date # <<>> THEN "date_found"
               ELSE "date_retry_count", turns[r].response_data)
    /\ UNCHANGED <<data, reservations, line, heard, last, script, arg, result>>

\* lines 399-466 and lines 316-350 of backend.py: the branch of a state other
\* than CollectingDate and CollectingReservationId, and what the handler does
\* with the result
handle_state(r) ==
    /\ turns[r].pc = "dispatch"
    /\ \E reservation_id \in ReservationIds :
       \E w \in {after_turn(dispatch(Seen(r), turns[r].response_data.current_state,
                                     turns[r].response_data.intent, turns[r].user_input,
                                     turns[r].response_data.entities), reservation_id)} :
        /\ session' = [session EXCEPT ![turns[r].call_sid] = w.session]
        /\ data' = [data EXCEPT ![turns[r].call_sid] = w.data]
        /\ reservations' = w.reservations
        /\ Goes(r, "return", w.response)
    /\ UNCHANGED <<line, heard, last, script, arg, result>>

\* lines 587-594, 614-622: the date is known, the state CollectingTime is stored
date_set_state(r) ==
    /\ turns[r].pc = "date_found"
    /\ session' = [session EXCEPT ![turns[r].call_sid] =
                      hset(session[turns[r].call_sid], "conversation_state", COLLECTING_TIME)]
    /\ Goes(r, "date_hdel",
            respond(Seen(r), <<"reservation_for_ask_time", turns[r].response_data.entities.date>>,
                    "collect_time", TRUE).response)
    /\ UNCHANGED <<data, reservations, line, heard, last, script, arg, result>>

\* lines 596, 623: the retry counter is deleted
date_hdel_retry_count(r) ==
    /\ turns[r].pc = "date_hdel"
    /\ session' = [session EXCEPT ![turns[r].call_sid] =
                      hdel(session[turns[r].call_sid], "date_retry_count")]
    /\ Goes(r, "return", turns[r].response_data)
    /\ UNCHANGED <<data, reservations, line, heard, last, script, arg, result>>

\* lines 598-600: the retry counter is read and one added to it
date_hget_retry_count(r) ==
    /\ turns[r].pc = "date_retry_count"
    /\ turns' = [turns EXCEPT ![r].pc = "date_hset",
                              ![r].retry_count = session[turns[r].call_sid].date_retry_count + 1]
    /\ UNCHANGED <<session, data, reservations, line, heard, last, script, arg, result>>

\* lines 601-638: the retry counter is written; the utterance is searched
\* for a month and a day and, failing that, the caller asked again
date_hset_retry_count(r) ==
    /\ turns[r].pc = "date_hset"
    /\ session' = [session EXCEPT ![turns[r].call_sid] =
                      hset(session[turns[r].call_sid], "date_retry_count", turns[r].retry_count)]
    /\ Let(lower(turns[r].user_input), LAMBDA user_input_lower :
       Let(search(month_pattern, user_input_lower), LAMBDA match :
            IF match.found
            THEN Goes(r, "date_found",
                      [turns[r].response_data EXCEPT !.entities.date =
                            group(user_input_lower, match, 1) \o <<" ">>
                            \o group(user_input_lower, match, 2)])
            ELSE Goes(r, "return",
                      [turns[r].response_data EXCEPT
                            !.response_text = IF turns[r].retry_count = 1 THEN <<"date_not_caught">>
                                              ELSE IF turns[r].retry_count = 2
                                              THEN <<"date_month_then_day">>
                                              ELSE <<"date_still_trouble">>,
                            !.needs_more_info = TRUE])))
    /\ UNCHANGED <<data, reservations, line, heard, last, script, arg, result>>

\* lines 461-464, 746-748, 790-800: action_type is read; the id is the entity
\* or what the looser scan finds, and without an id the caller is asked again
hget_action_type(r) ==
    /\ turns[r].pc = "hget_action_type"
    /\ Let(search(potential_id_pattern, upper(turns[r].user_input)), LAMBDA potential_id :
       Let(IF turns[r].response_data.entities.reservation_id # <<>>
           THEN turns[r].response_data.entities.reservation_id
           ELSE IF potential_id.found THEN group(upper(turns[r].user_input), potential_id, 1)
           ELSE <<>>, LAMBDA reservation_id :
            turns' = [turns EXCEPT
                ![r].action_type = session[turns[r].call_sid].action_type,
                ![r].pc = IF reservation_id # <<>> THEN "exists" ELSE "return",
                ![r].response_data =
                    IF reservation_id # <<>>
                    THEN [turns[r].response_data EXCEPT !.entities.reservation_id = reservation_id]
                    ELSE [turns[r].response_data EXCEPT
                            !.response_text = <<"reservation_id_not_caught">>,
                            !.needs_more_info = TRUE]]))
    /\ UNCHANGED <<session, data, reservations, line, heard, last, script, arg, result>>

\* line 750: the store is asked whether the record exists
reservation_exists(r) ==
    /\ turns[r].pc = "exists"
    /\ turns' = [turns EXCEPT
            ![r].pc = "cancel_or_report",
            ![r].reservation_exists =
                exists(reservations, upper(turns[r].response_data.entities.reservation_id))]
    /\ UNCHANGED <<session, data, reservations, line, heard, last, script, arg, result>>

\* lines 752-787: the record is deleted, or reported, or not found
delete_or_report(r) ==
    /\ turns[r].pc = "cancel_or_report"
    /\ \E w \in {cancel_or_report(Seen(r), upper(turns[r].response_data.entities.reservation_id),
                                   turns[r].action_type, turns[r].reservation_exists)} :
        /\ reservations' = w.reservations
        /\ Goes(r, "set_completed", w.response)
    /\ UNCHANGED <<session, data, line, heard, last, script, arg, result>>

\* line 789: the state Completed is stored
set_completed(r) ==
    /\ turns[r].pc = "set_completed"
    /\ session' = [session EXCEPT ![turns[r].call_sid] =
                      hset(session[turns[r].call_sid], "conversation_state", COMPLETED)]
    /\ Goes(r, "return", turns[r].response_data)
    /\ UNCHANGED <<data, reservations, line, heard, last, script, arg, result>>

NextInFlight ==
    \/ \E r \in Requests : read_conversation_state(r)
    \/ \E r \in Requests : write_entities(r)
    \/ \E r \in Requests : write_action_type(r)
    \/ \E r \in Requests : handle_state(r)
    \/ \E r \in Requests : date_set_state(r)
    \/ \E r \in Requests : date_hdel_retry_count(r)
    \/ \E r \in Requests : date_hget_retry_count(r)
    \/ \E r \in Requests : date_hset_retry_count(r)
    \/ \E r \in Requests : hget_action_type(r)
    \/ \E r \in Requests : reservation_exists(r)
    \/ \E r \in Requests : delete_or_report(r)
    \/ \E r \in Requests : set_completed(r)

SpecInFlight == InitInFlight /\ [][NextInFlight]_vars

(***************************************************************************)
(* Properties of one turn.  After handle_conversational_gather, last holds *)
(* the utterance, the store as the turn found it and the result            *)
(* process_user_input returned; session and data hold what it left.        *)
(***************************************************************************)
Turn == last.handler = "handle_conversational_gather"
StateBefore == get_conversation_state(last.before.session)
SessionAfter == session[last.call]
DataAfter == data[last.call]
Said(words) == any_word_in(words, lower(last.user_input))

\* C1: a call that starts in Initial and whose caller says the utterances of
\* BookingScript turn after turn does not end before it has reached
\* ConfirmingReservation in a turn that returns next_action = confirm_reservation.
C1_BookingReachesConfirmation ==
    \A c \in Calls :
        (script[c] >= 1 /\ line[c] = "hungup") =>
            /\ session[c].conversation_state = CONFIRMING_RESERVATION
            /\ last.response.next_action = "confirm_reservation"

\* C2: in Initial, a turn classified MakeReservation stores the conversation
\* state CollectingName and returns needs_more_info = true.
C2_MakeReservationMovesToCollectingName ==
    (Turn /\ StateBefore = INITIAL /\ last.response.intent = MAKE_RESERVATION) =>
        /\ SessionAfter.conversation_state = COLLECTING_NAME
        /\ last.response.needs_more_info

\* C3: in Initial, a turn classified CheckReservation or CancelReservation
\* records action_type check or cancel and stores the conversation state
\* CollectingReservationId.
C3_LookupMovesToCollectingReservationId ==
    (Turn /\ StateBefore = INITIAL
          /\ last.response.intent \in {CHECK_RESERVATION, CANCEL_RESERVATION}) =>
        /\ SessionAfter.action_type =
              (IF last.response.intent = CHECK_RESERVATION THEN "check" ELSE "cancel")
        /\ SessionAfter.conversation_state = COLLECTING_RESERVATION_ID

\* C4: every result has needs_more_info = true, except in a turn that reaches
\* Completed, returns next_action = hangup or returns next_action =
\* confirm_reservation.
C4_NeedsMoreInfoUnlessTerminal ==
    Turn =>
        \/ last.response.needs_more_info
        \/ SessionAfter.conversation_state = COMPLETED
        \/ last.response.next_action \in {"hangup", "confirm_reservation"}

\* C5: in CollectingContact, a turn whose utterance yields a contact stores it
\* as pending_contact, returns next_action = confirm_contact, leaves the state
\* CollectingContact and leaves the draft's contact field as it was.
C5_ContactIsPendingNotCommitted ==
    (Turn /\ StateBefore = COLLECTING_CONTACT /\ last.before.session.pending_contact = <<>>
          /\ last.response.entities.contact # <<>>) =>
        /\ SessionAfter.pending_contact = last.response.entities.contact
        /\ last.response.next_action = "confirm_contact"
        /\ SessionAfter.conversation_state = COLLECTING_CONTACT
        /\ DataAfter.contact = last.before.data.contact

\* C6: in CollectingContact with a pending_contact, an utterance containing a
\* confirmation word writes the pending value into the draft's contact field,
\* deletes pending_contact, stores the state CollectingDate and returns
\* next_action = collect_date.
C6_ConfirmationCommitsPendingContact ==
    (Turn /\ StateBefore = COLLECTING_CONTACT /\ last.before.session.pending_contact # <<>>
          /\ Said(confirmation_words)) =>
        /\ DataAfter.contact = last.before.session.pending_contact
        /\ SessionAfter.pending_contact = <<>>
        /\ SessionAfter.conversation_state = COLLECTING_DATE
        /\ last.response.next_action = "collect_date"
\* a pending contact has been confirmed with "yes"
C6_Witness ==
    /\ Turn /\ StateBefore = COLLECTING_CONTACT
    /\ last.before.session.pending_contact = S("5551234567")
    /\ last.user_input = S("yes")
    /\ DataAfter.contact = S("5551234567")
    /\ SessionAfter.conversation_state = COLLECTING_DATE

\* C7: in CollectingContact with a pending_contact, an utterance that is one
\* of the rejection words deletes pending_contact, leaves the state
\* CollectingContact, returns next_action = collect_contact and does not
\* write the draft's contact field.
C7_RejectionClearsPendingContact ==
    (Turn /\ StateBefore = COLLECTING_CONTACT /\ last.before.session.pending_contact # <<>>
          /\ \E i \in 1..Len(rejection_words) : lower(last.user_input) = S(rejection_words[i])) =>
        /\ SessionAfter.pending_contact = <<>>
        /\ SessionAfter.conversation_state = COLLECTING_CONTACT
        /\ last.response.next_action = "collect_contact"
        /\ DataAfter.contact = last.before.data.contact

\* C8: in CollectingTime with a pending_time, an utterance containing a
\* confirmation word writes the pending time into the draft's time field,
\* deletes pending_time and stores the state CollectingGuests.
C8_ConfirmationCommitsPendingTime ==
    (Turn /\ StateBefore = COLLECTING_TIME /\ last.before.session.pending_time # <<>>
          /\ Said(confirmation_words)) =>
        /\ DataAfter.time = last.before.session.pending_time
        /\ SessionAfter.pending_time = <<>>
        /\ SessionAfter.conversation_state = COLLECTING_GUESTS

\* C9 as stated: in CollectingTime, the utterance "7" sets pending_time =
\* "7 pm", returns next_action = confirm_time and leaves the state
\* CollectingTime.
C9_BareSevenIsPending ==
    (Turn /\ StateBefore = COLLECTING_TIME /\ last.user_input = S("7")) =>
        /\ SessionAfter.pending_time = S("7 pm")
        /\ last.response.next_action = "confirm_time"
        /\ SessionAfter.conversation_state = COLLECTING_TIME
\* C9 as amended: in CollectingTime, the utterance "7" is extracted as the
\* time "7", which is valid for want of a meridiem: the turn writes "7" into
\* the draft's time field, leaves pending_time as it was, deletes
\* time_retry_count, returns next_action = collect_guests and stores the
\* state CollectingGuests.
C9_BareSevenIsAccepted ==
    (Turn /\ StateBefore = COLLECTING_TIME /\ last.user_input = S("7")) =>
        /\ last.response.entities.time = S("7")
        /\ DataAfter.time = S("7")
        /\ SessionAfter.pending_time = last.before.session.pending_time
        /\ SessionAfter.time_retry_count = 0
        /\ last.response.next_action = "collect_guests"
        /\ SessionAfter.conversation_state = COLLECTING_GUESTS
\* "7" has been said in CollectingTime
C9_Witness ==
    /\ Turn /\ StateBefore = COLLECTING_TIME /\ last.user_input = S("7")
    /\ SessionAfter.conversation_state = COLLECTING_GUESTS

\* C10: a time of hour h and meridiem m is valid iff (m = am and 9 <= h <= 11)
\* or (m = pm and (h = 12 or 1 <= h <= 10)) or there is no meridiem.
C10_ValidWithinOperatingHours ==
    result # <<>> =>
        (result[1] <=>
            \/ arg.meridiem = "am" /\ 9 <= arg.hour /\ arg.hour <= 11
            \/ arg.meridiem = "pm" /\ (arg.hour = 12 \/ (1 <= arg.hour /\ arg.hour <= 10))
            \/ arg.meridiem = "")
\* 8am has been found invalid
C10_Witness ==
    /\ result = <<FALSE>>
    /\ arg.hour = 8 /\ arg.meridiem = "am" /\ arg.time_str = S("8am")

\* what extract_entities found in the utterance of the turn
Found == extracted[last.user_input][IF StateBefore = COLLECTING_NAME THEN COLLECTING_NAME ELSE INITIAL]

\* C11: in CollectingTime, a turn whose extracted time fails the validation
\* leaves the state CollectingTime and returns needs_more_info = true; a turn
\* whose extracted time passes it stores CollectingGuests and deletes
\* time_retry_count.
C11_ExtractedTimeIsValidated ==
    (Turn /\ StateBefore = COLLECTING_TIME /\ Found.time # <<>>) =>
        IF _validate_time_within_hours(Found.time)
        THEN /\ SessionAfter.conversation_state = COLLECTING_GUESTS
             /\ SessionAfter.time_retry_count = 0
        ELSE /\ SessionAfter.conversation_state = COLLECTING_TIME
             /\ last.response.needs_more_info
\* "11pm" has been refused in CollectingTime
C11_Witness ==
    /\ Turn /\ StateBefore = COLLECTING_TIME /\ last.user_input = S("11pm")
    /\ SessionAfter.conversation_state = COLLECTING_TIME
    /\ last.response.response_text = <<"only_open_9am_to_10pm", S("11pm")>>

\* C12: in CollectingDate, a turn whose utterance contains a recognizable
\* date returns it as the date entity, writes it to the draft, stores the
\* state CollectingTime and deletes date_retry_count.
C12_DateIsCommitted ==
    (Turn /\ StateBefore = COLLECTING_DATE /\ Found.date # <<>>) =>
        /\ last.response.entities.date = Found.date
        /\ DataAfter.date = Found.date
        /\ SessionAfter.conversation_state = COLLECTING_TIME
        /\ SessionAfter.date_retry_count = 0
\* "november twentieth" has been said after an utterance without a date
C12_Witness ==
    /\ Turn /\ StateBefore = COLLECTING_DATE /\ last.user_input = S("november twentieth")
    /\ last.before.session.date_retry_count >= 1
    /\ DataAfter.date = S("november twentieth")
    /\ SessionAfter.conversation_state = COLLECTING_TIME

\* the re-prompt of the n-th unrecognized date utterance in a row
DateReprompt(n) ==
    IF n = 1 THEN <<"date_not_caught">>
    ELSE IF n = 2 THEN <<"date_month_then_day">>
    ELSE <<"date_still_trouble">>
\* C13: date_retry_count is absent when CollectingDate is entered; every
\* unrecognized date utterance there leaves the state CollectingDate, adds one
\* to date_retry_count and is answered by a re-prompt that differs for the
\* counts 1, 2 and 3; a turn that extracts a date leaves date_retry_count
\* absent.
C13_DateRetriesAreCounted ==
    /\ (Turn /\ StateBefore # COLLECTING_DATE
              /\ SessionAfter.conversation_state = COLLECTING_DATE) =>
            SessionAfter.date_retry_count = 0
    /\ (Turn /\ StateBefore = COLLECTING_DATE /\ last.response.entities.date = <<>>) =>
            /\ SessionAfter.conversation_state = COLLECTING_DATE
            /\ SessionAfter.date_retry_count = last.before.session.date_retry_count + 1
            /\ SessionAfter.date_retry_count <= 3 =>
                    /\ last.response.response_text = DateReprompt(SessionAfter.date_retry_count)
                    /\ \A n \in 1..3 : n # SessionAfter.date_retry_count =>
                            last.response.response_text # DateReprompt(n)
    /\ (Turn /\ StateBefore = COLLECTING_DATE /\ last.response.entities.date # <<>>) =>
            SessionAfter.date_retry_count = 0
\* the third unrecognized date utterance in a row has been answered
C13_Witness ==
    /\ Turn /\ StateBefore = COLLECTING_DATE
    /\ last.before.session.date_retry_count = 2
    /\ SessionAfter.date_retry_count = 3
    /\ last.response.response_text = <<"date_still_trouble">>

\* what a summary shows for a field of the draft: its value, or the
\* placeholder when the draft has none
Shown(value, placeholder) == IF value = <<>> THEN S(placeholder) ELSE value
\* C14: in CollectingGuests, a turn whose utterance yields a guest count
\* stores the state ConfirmingReservation, returns next_action =
\* confirm_reservation with needs_more_info = false and answers with the
\* summary of the draft's name, date and time and this turn's guest count; a
\* turn that yields none leaves the state CollectingGuests.
C14_GuestsCompleteTheDraft ==
    (Turn /\ StateBefore = COLLECTING_GUESTS) =>
        IF Found.guests # <<>>
        THEN /\ SessionAfter.conversation_state = CONFIRMING_RESERVATION
             /\ last.response.next_action = "confirm_reservation"
             /\ ~last.response.needs_more_info
             /\ last.response.response_text =
                    <<"confirm_details", Shown(DataAfter.name, "Customer"),
                      Shown(DataAfter.date, "the selected date"),
                      Shown(DataAfter.time, "the selected time"), Found.guests>>
        ELSE SessionAfter.conversation_state = COLLECTING_GUESTS
\* "4" has been said in CollectingGuests
C14_Witness ==
    /\ Turn /\ StateBefore = COLLECTING_GUESTS /\ last.user_input = S("4")
    /\ SessionAfter.conversation_state = CONFIRMING_RESERVATION
    /\ last.response.response_text[2] = S("John Smith")
    /\ last.response.response_text[5] = S("4")

\* C15: a guests entity returned by extract_entities is an integer in 1..20,
\* and an utterance whose only number is outside 1..20 yields no guests
\* entity.
C15_GuestsWithinOneToTwenty ==
    result # <<>> =>
        /\ result[1] # <<>> =>
                /\ IsNumber(result[1])
                /\ 1 <= int(result[1]) /\ int(result[1]) <= 20
        /\ arg.number \notin 1..20 => result[1] = <<>>
\* "table for 25" has yielded no guests entity
C15_Witness ==
    /\ arg.user_input = S("table for 25") /\ arg.number = 25
    /\ result = << <<>> >>

\* the id a turn in CollectingReservationId has obtained, by extraction or by
\* the fallback scan (<<>>: none)
IdObtained == upper(last.response.entities.reservation_id)

\* C16: in CollectingReservationId, every turn in which an id is obtained
\* stores the state Completed and returns next_action = complete, whether
\* the id is in the store or not and whether action_type is check or cancel.
C16_LookupCompletes ==
    (Turn /\ StateBefore = COLLECTING_RESERVATION_ID /\ IdObtained # <<>>) =>
        /\ SessionAfter.conversation_state = COMPLETED
        /\ last.response.next_action = "complete"

\* C17: in CollectingReservationId with an id that exists in the store, when
\* action_type is cancel the record is deleted and the cancellation reported;
\* when action_type is check the record is reported and the store is left
\* as it was.
C17_CancelDeletesCheckReports ==
    (Turn /\ StateBefore = COLLECTING_RESERVATION_ID /\ IdObtained # <<>>
          /\ exists(last.before.reservations, IdObtained)) =>
        /\ SessionAfter.action_type = "cancel" =>
                /\ ~exists(reservations, IdObtained)
                /\ last.response.response_text = <<"cancelled", IdObtained>>
        /\ SessionAfter.action_type = "check" =>
                /\ reservations = last.before.reservations
                /\ last.response.response_text =
                        <<"found", IdObtained, last.before.reservations[IdObtained].name,
                          last.before.reservations[IdObtained].date,
                          last.before.reservations[IdObtained].time,
                          last.before.reservations[IdObtained].guests>>
\* the reservation ABCD1234 has been cancelled
C17_Witness ==
    /\ Turn /\ StateBefore = COLLECTING_RESERVATION_ID
    /\ last.before.session.action_type = "cancel"
    /\ last.user_input = S("ABCD1234")
    /\ last.before.reservations[S("ABCD1234")] = EarlierReservation
    /\ reservations = NoReservations

\* C18: in CollectingReservationId, a turn in which no id is obtained leaves
\* the state CollectingReservationId, leaves every reservation record as it
\* was and returns needs_more_info = true.
C18_NoIdAsksAgain ==
    (Turn /\ StateBefore = COLLECTING_RESERVATION_ID /\ IdObtained = <<>>) =>
        /\ SessionAfter.conversation_state = COLLECTING_RESERVATION_ID
        /\ reservations = last.before.reservations
        /\ last.response.needs_more_info
\* "bye" has been said in CollectingReservationId, with a record in the store
C18_Witness ==
    /\ Turn /\ StateBefore = COLLECTING_RESERVATION_ID /\ last.user_input = S("bye")
    /\ reservations[S("ABCD1234")] = EarlierReservation
    /\ SessionAfter.conversation_state = COLLECTING_RESERVATION_ID
    /\ last.response.response_text = <<"reservation_id_not_caught">>

\* C20: in Initial, a turn whose intent is Help, Greeting or Unknown leaves
\* the state Initial and writes no action_type; a turn whose intent is
\* Goodbye returns next_action = hangup.
C20_InitialStaysInitial ==
    (Turn /\ StateBefore = INITIAL) =>
        /\ last.response.intent \in {HELP, GREETING, UNKNOWN} =>
                /\ SessionAfter.conversation_state = INITIAL
                /\ SessionAfter.action_type = last.before.session.action_type
                /\ last.response.action_type = ""
        /\ last.response.intent = GOODBYE => last.response.next_action = "hangup"
\* "help" has been said in Initial
C20_Witness ==
    /\ Turn /\ StateBefore = INITIAL /\ last.user_input = S("help")
    /\ last.response.intent = HELP
    /\ last.response.response_text = <<"help">>
    /\ SessionAfter.conversation_state = INITIAL /\ SessionAfter.action_type = ""

\* C19: in ConfirmingReservation and in Completed, process_user_input leaves
\* the conversation state as it was whatever the utterance, returns
\* next_action = hangup exactly when the intent is Goodbye, and processing
\* the same utterance a second time leaves the same store and returns the
\* same result as processing it once.
C19_OtherStatesAreStable ==
    \A k \in 1..Len(result) :
        /\ result[k].session.conversation_state = arg.store.session.conversation_state
        /\ result[k].response.next_action = "hangup" <=> result[k].response.intent = GOODBYE
        /\ result[k] = result[1]
\* "bye" has been processed twice in ConfirmingReservation
C19_Witness ==
    /\ Len(result) = 2
    /\ arg.store.session.conversation_state = CONFIRMING_RESERVATION
    /\ arg.user_input = S("bye")
    /\ result[2].response.next_action = "hangup"
    /\ result[2].session.conversation_state = CONFIRMING_RESERVATION

\* the next actions the contract of process_user_input lists; the result's
\* empty string is the listed none
NextActions == {"", "collect_name", "collect_contact", "confirm_contact", "collect_date",
                "collect_time", "confirm_time", "collect_guests", "collect_reservation_id",
                "confirm_reservation", "complete", "hangup"}
\* C21: the next_action of every result that process_user_input returns is
\* one of none, collect_name, collect_contact, confirm_contact, collect_date,
\* collect_time, confirm_time, collect_guests, collect_reservation_id,
\* confirm_reservation, complete and hangup.
C21_NextActionIsListed ==
    Turn => last.response.next_action \in NextActions

\* the answer of recognize_intent and the score it gave an intent
Answer == result[1].answer
ScoreOf(intent) ==
    result[1].intent_scores[CHOOSE k \in 1..Len(IntentOrder) : IntentOrder[k] = intent]
\* the patterns of an intent, by their number, that a phrase holds a match
\* for; every such match begins with the phrase
PatternsIn(phrase, intent) ==
    CASE phrase = "book" /\ intent = MAKE_RESERVATION -> {1}
      [] phrase = "table for two" /\ intent = MAKE_RESERVATION -> {2}
      [] phrase = "book a table" /\ intent = MAKE_RESERVATION -> {1, 2}
      [] phrase = "check my reservation" /\ intent = CHECK_RESERVATION -> {1}
      [] phrase = "what is my reservation" /\ intent = CHECK_RESERVATION -> {3}
      [] phrase = "cancel" /\ intent = CANCEL_RESERVATION -> {2}
      [] phrase = "cancel my booking" /\ intent = CANCEL_RESERVATION -> {1, 2}
      [] phrase = "Hello" /\ intent = GREETING -> {1}
      [] phrase = "help" /\ intent = HELP -> {1}
      [] phrase = "bye" /\ intent = GOODBYE -> {1}
      [] OTHER -> {}
\* the number of patterns of an intent
PatternCount(intent) ==
    CASE intent \in {MAKE_RESERVATION, CANCEL_RESERVATION} -> 2
      [] intent = CHECK_RESERVATION -> 3
      [] OTHER -> 1
\* how many characters of the utterance come before its i-th phrase
RECURSIVE PhraseStart(_, _)
PhraseStart(phrases, i) ==
    IF i = 1 THEN 0 ELSE PhraseStart(phrases, i - 1) + Len(Phrases[phrases[i - 1]]) + 1
\* min(1.0, (sum over the matching patterns of w) / (number of patterns) *
\* (number of matching patterns)) for the utterance made of phrases, in
\* units of 1/ScoreUnit; w is 1.0 for a pattern whose first match starts
\* before 30% of the utterance's length, else 0.7
ExpectedScore(intent, phrases) ==
    LET holds(i, k) == k \in PatternsIn(Phrases[phrases[i]], intent)
        matching == {k \in 1..PatternCount(intent) : \E i \in 1..Len(phrases) : holds(i, k)}
        first(k) == CHOOSE i \in 1..Len(phrases) : holds(i, k) /\ \A j \in 1..(i - 1) : ~holds(j, k)
        tenths(k) == IF 10 * PhraseStart(phrases, first(k)) < 3 * Len(phrase_string(phrases))
                     THEN 10 ELSE 7
        sum == SumSeq(Tup([k \in 1..PatternCount(intent) |->
                              IF k \in matching THEN tenths(k) ELSE 0]))
        value == (sum * Cardinality(matching) * ScoreUnit) \div (10 * PatternCount(intent))
    IN IF value > ScoreUnit THEN ScoreUnit ELSE value
\* the intents in the order of their declaration
EnumerationOrder == <<MAKE_RESERVATION, CHECK_RESERVATION, CANCEL_RESERVATION, GREETING, HELP,
                      GOODBYE>>
Position(intent) == CHOOSE k \in 1..Len(EnumerationOrder) : EnumerationOrder[k] = intent

\* C22: recognize_intent returns (Unknown, 0.0) for the empty utterance and
\* for every utterance in which no intent pattern matches; the confidence it
\* returns lies in [0, 1], the intent is Unknown exactly when the confidence
\* is 0.0, and a confidence other than 0.0 is at least 0.3.
C22_UnknownExactlyAtZero ==
    result # <<>> =>
        /\ (\A i \in 1..Len(arg.phrases), k \in 1..Len(EnumerationOrder) :
                PatternsIn(Phrases[arg.phrases[i]], EnumerationOrder[k]) = {}) =>
                Answer = [intent |-> UNKNOWN, confidence |-> 0]
        /\ 0 <= Answer.confidence /\ Answer.confidence <= ScoreUnit
        /\ Answer.intent = UNKNOWN <=> Answer.confidence = 0
        /\ Answer.confidence # 0 => 10 * Answer.confidence >= 3 * ScoreUnit
\* "um excuse me", in which no pattern matches, has been recognized
C22_Witness ==
    /\ arg.user_input = S("um excuse me")
    /\ result # <<>> /\ Answer = [intent |-> UNKNOWN, confidence |-> 0]
    /\ \A k \in 1..Len(EnumerationOrder) : ScoreOf(EnumerationOrder[k]) = 0

\* C23: when several intents have the highest score, recognize_intent returns
\* the one of them that is declared first (MakeReservation, CheckReservation,
\* CancelReservation, Greeting, Help, Goodbye).
C23_TiesGoToTheFirstDeclared ==
    (result # <<>> /\ Answer.intent # UNKNOWN) =>
        \A k \in 1..Len(EnumerationOrder) :
            /\ ScoreOf(EnumerationOrder[k]) <= Answer.confidence
            /\ ScoreOf(EnumerationOrder[k]) = Answer.confidence => Position(Answer.intent) <= k
\* "Hello book a table" scores 1.0 for Greeting and for MakeReservation and
\* has been recognized as MakeReservation
C23_Witness ==
    /\ arg.user_input = S("Hello book a table")
    /\ result # <<>> /\ Answer = [intent |-> MAKE_RESERVATION, confidence |-> ScoreUnit]
    /\ ScoreOf(GREETING) = ScoreUnit /\ ScoreOf(MAKE_RESERVATION) = ScoreUnit

\* C24: the score recognize_intent gives each intent is min(1.0, (sum over
\* the matching patterns of w) / (number of patterns of the intent) * (number
\* of matching patterns)), w being 1.0 for a match that starts before 30% of
\* the utterance's length and 0.7 otherwise; the intent with the highest
\* score is returned with that score if it is at least 0.3, (Unknown, 0.0)
\* otherwise.
C24_ScoreFormula ==
    result # <<>> =>
        LET expected == [k \in 1..Len(EnumerationOrder) |->
                            ExpectedScore(EnumerationOrder[k], arg.phrases)]
            top == CHOOSE k \in 1..Len(EnumerationOrder) :
                       \A j \in 1..Len(EnumerationOrder) : expected[j] <= expected[k]
        IN /\ \A k \in 1..Len(EnumerationOrder) : ScoreOf(EnumerationOrder[k]) = expected[k]
           /\ IF arg.user_input # <<>> /\ 10 * expected[top] >= 3 * ScoreUnit
              THEN /\ Answer.confidence = expected[top]
                   /\ ScoreOf(Answer.intent) = expected[top]
              ELSE Answer = [intent |-> UNKNOWN, confidence |-> 0]
\* "excuse me check my reservation" scores 0.7 / 3 for CheckReservation, its
\* only match starting at a third of the utterance, and is not recognized
C24_Witness ==
    /\ arg.user_input = S("excuse me check my reservation")
    /\ result # <<>> /\ 30 * ScoreOf(CHECK_RESERVATION) = 7 * ScoreUnit
    /\ Answer = [intent |-> UNKNOWN, confidence |-> 0]

\* the name the fallback of the CollectingName branch makes of an utterance:
\* its words of more than one character, capitalized
FallbackName(user_input) ==
    LET words == split(user_input)
        long == SelectSeq(words, LAMBDA word : Len(word) > 1)
    IN join(Tup([i \in 1..Len(long) |-> capitalize(long[i])]))
\* C25: in CollectingName, a turn in which no name entity is extracted and
\* the fallback makes an empty name re-prompts and leaves the state
\* CollectingName; the state CollectingContact is stored only when the draft
\* holds a non-empty name.
C25_EmptyNameAsksAgain ==
    (Turn /\ StateBefore = COLLECTING_NAME) =>
        /\ (Found.name = <<>> /\ FallbackName(last.user_input) = <<>>) =>
                /\ SessionAfter.conversation_state = COLLECTING_NAME
                /\ last.response.response_text = <<"name_not_caught">>
        /\ SessionAfter.conversation_state = COLLECTING_CONTACT => DataAfter.name # <<>>

\* every request in flight has returned
Returned == turns # <<>> /\ \A r \in Requests : turns[r].pc = "return"
\* the session and draft of a call after its requests, taken in this order,
\* have been handled one after the other on the store the requests found
RECURSIVE OneByOne(_, _, _)
OneByOne(store, call_sid, order) ==
    IF order = <<>> THEN <<store.session, store.data>>
    ELSE IF turns[Head(order)].call_sid # call_sid THEN OneByOne(store, call_sid, Tail(order))
    ELSE LET w == after_turn(process_user_input(store, turns[Head(order)].user_input),
                             CHOOSE id \in ReservationIds : TRUE)
         IN OneByOne([session |-> w.session, data |-> w.data, reservations |-> w.reservations],
                     call_sid, Tail(order))
StoreFound(call_sid) ==
    [session |-> arg.session[call_sid], data |-> arg.data[call_sid],
     reservations |-> arg.reservations]

\* C26: when two turns of one call have been processed with their store
\* operations interleaved, the call's session and draft are those of
\* processing the two turns one after the other in one of the two orders.
C26_InterleavedTurnsAreSerializable ==
    (Returned /\ turns[1].call_sid = turns[2].call_sid) =>
        <<session[turns[1].call_sid], data[turns[1].call_sid]>> \in
            {OneByOne(StoreFound(turns[1].call_sid), turns[1].call_sid, order) :
                order \in {<<1, 2>>, <<2, 1>>}}

\* C27: when the turns of two different calls have been processed with their
\* store operations interleaved, each call's session and draft are those its
\* own turn leaves when it is processed alone.
C27_CallsAreIsolated ==
    (Returned /\ turns[1].call_sid # turns[2].call_sid) =>
        \A r \in Requests :
            <<session[turns[r].call_sid], data[turns[r].call_sid]>> =
                OneByOne(StoreFound(turns[r].call_sid), turns[r].call_sid, <<r>>)
\* CA1 has said "today" and CA2 "um", both asked for the date after one
\* unrecognized date: CA1 is asked for the time, CA2 for the date again
C27_Witness ==
    /\ Returned
    /\ turns[1].call_sid = "CA1" /\ turns[1].user_input = S("today")
    /\ turns[2].call_sid = "CA2" /\ turns[2].user_input = S("um")
    /\ arg.session["CA1"].date_retry_count = 1 /\ arg.session["CA2"].date_retry_count = 1
    /\ session["CA1"].conversation_state = COLLECTING_TIME
    /\ session["CA1"].date_retry_count = 0 /\ data["CA1"].date = S("today")
    /\ session["CA2"].conversation_state = COLLECTING_DATE
    /\ session["CA2"].date_retry_count = 2 /\ data["CA2"].date = <<>>

\* C28: a reservation record is created only in a turn in which the caller
\* answers the confirmation summary with a confirmation word; the turn that
\* collects the guest count creates none.
C28_RecordOnlyAfterConfirmation ==
    (Turn /\ \E id \in ReservationIds :
                ~exists(last.before.reservations, id) /\ exists(reservations, id)) =>
        /\ StateBefore = CONFIRMING_RESERVATION
        /\ Said(confirmation_words)

\* C29: extract_entities returns the contact "5551234567" for the utterance
\* "five five five one two three four five six seven".
C29_SpelledDigitsAreAPhoneNumber ==
    (result # <<>>
        /\ arg.user_input = S("five five five one two three four five six seven")) =>
        result[1] = S("5551234567")

\* C30: once a turn has made the adapter hang up, the call's session and
\* draft are no longer in the store.
C30_SessionRemovedAtHangup ==
    (Turn /\ line[last.call] = "hungup") =>
        /\ session[last.call] = NoSession
        /\ data[last.call] = NoData

\* the field of the draft a collection state is waiting for ("": none)
Awaited(state) ==
    CASE state = COLLECTING_NAME -> "name"
      [] state = COLLECTING_CONTACT -> "contact"
      [] state = COLLECTING_DATE -> "date"
      [] state = COLLECTING_TIME -> "time"
      [] state = COLLECTING_GUESTS -> "guests"
      [] OTHER -> ""
\* C31: a turn changes no field of the draft but the one its state is
\* waiting for; a turn in Initial, CollectingReservationId,
\* ConfirmingReservation or Completed changes none.
C31_OnlyTheAwaitedFieldIsWritten ==
    Turn => \A key \in EntityKeys :
                DataAfter[key] # last.before.data[key] => key = Awaited(StateBefore)

\* C32: in CollectingTime, a turn whose extracted time fails the validation
\* leaves the draft's time field as it was.
C32_RefusedTimeIsNotWritten ==
    (Turn /\ StateBefore = COLLECTING_TIME /\ Found.time # <<>>
          /\ ~_validate_time_within_hours(Found.time)) =>
        DataAfter.time = last.before.data.time

\* C33: a turn in CollectingDate or CollectingTime that finds no entity for
\* its field and yet moves on, by the search of the raw text, leaves in the
\* draft the value its response announces.
C33_AnnouncedFallbackValueIsInTheDraft ==
    /\ (Turn /\ StateBefore = COLLECTING_DATE /\ Found.date = <<>>
              /\ SessionAfter.conversation_state = COLLECTING_TIME) =>
            /\ last.response.response_text = <<"reservation_for_ask_time", DataAfter.date>>
    /\ (Turn /\ StateBefore = COLLECTING_TIME /\ Found.time = <<>>
              /\ SessionAfter.conversation_state = COLLECTING_GUESTS) =>
            /\ last.response.response_text = <<"time_ask_guests", DataAfter.time>>

\* the hour an utterance names: its first word that is a number (0: none)
NumberWords(user_input) == SelectSeq(split(lower(user_input)), IsNumber)
HourSaid(user_input) ==
    IF NumberWords(user_input) = <<>> THEN 0 ELSE int(NumberWords(user_input)[1])
\* the utterance has a word am or pm
MeridiemSaid(user_input) ==
    \E i \in 1..Len(split(lower(user_input))) :
        split(lower(user_input))[i] \in {S("am"), S("pm")}
\* C34: in CollectingTime, a turn that extracts no time from an utterance
\* naming an hour h without a meridiem adds one to time_retry_count, leaves
\* the state CollectingTime and the draft's time as they were and, if
\* 9 <= h <= 12, stores pending_time = "h pm" and returns next_action =
\* confirm_time; if 1 <= h < 9, writes no pending_time and asks for am or pm.
C34_BareHourIsPendingOrAsked ==
    (Turn /\ StateBefore = COLLECTING_TIME /\ Found.time = <<>>
          /\ HourSaid(last.user_input) \in 1..12 /\ ~MeridiemSaid(last.user_input)) =>
        /\ SessionAfter.time_retry_count = last.before.session.time_retry_count + 1
        /\ SessionAfter.conversation_state = COLLECTING_TIME
        /\ DataAfter.time = last.before.data.time
        /\ IF HourSaid(last.user_input) >= 9
           THEN /\ SessionAfter.pending_time = str(HourSaid(last.user_input)) \o S(" pm")
                /\ last.response.next_action = "confirm_time"
           ELSE /\ SessionAfter.pending_time = last.before.session.pending_time
                /\ last.response.next_action = ""
                /\ last.response.response_text =
                        <<"morning_or_evening", str(HourSaid(last.user_input))>>
\* "uh 7" has been said after "uh 9": the caller is asked for am or pm, and
\* "9 pm" is still pending
C34_Witness ==
    /\ Turn /\ StateBefore = COLLECTING_TIME /\ last.user_input = S("uh 7")
    /\ last.before.session.pending_time = S("9 pm")
    /\ last.before.session.time_retry_count = 1
    /\ SessionAfter.pending_time = S("9 pm")
    /\ SessionAfter.time_retry_count = 2
    /\ last.response.response_text = <<"morning_or_evening", S("7")>>

\* C35: for an utterance with a number and, after it, "table for N" or
\* "reservation for N" with N in 1..20, extract_entities returns N as the
\* guests entity.
C35_TableForWinsOverBareNumber ==
    (result # <<>> /\ arg.number \in 1..20 /\ arg.earlier # arg.number) =>
        result[1] = str(arg.number)

\* the order of the states of a booking
BookingOrder == <<INITIAL, COLLECTING_NAME, COLLECTING_CONTACT, COLLECTING_DATE, COLLECTING_TIME,
                  COLLECTING_GUESTS, CONFIRMING_RESERVATION>>
Rank(state) == CHOOSE k \in 1..Len(BookingOrder) : BookingOrder[k] = state
\* the changes of state a turn may make
MayFollow(from, to) ==
    \/ to = from
    \/ /\ \E k \in 1..(Len(BookingOrder) - 1) : BookingOrder[k] = from
       /\ \E k \in 1..Len(BookingOrder) : BookingOrder[k] = to
       /\ Rank(to) = Rank(from) + 1
    \/ from = COLLECTING_RESERVATION_ID /\ to = COMPLETED
\* C36: a turn leaves the state it found, or moves it one step forward in
\* the order of a booking, or from CollectingReservationId to Completed; and
\* no utterance moves a call out of ConfirmingReservation or Completed.
C36_StateMovesOneStepForward ==
    /\ Turn => MayFollow(StateBefore, get_conversation_state(SessionAfter))
    /\ \A c \in Calls :
            get_conversation_state(session[c]) \in {CONFIRMING_RESERVATION, COMPLETED} =>
                \A u \in Utterances :
                    get_conversation_state(process_user_input(Before(c), u).session)
                        = get_conversation_state(session[c])
\* the guests turn of a call that went through every collection state has
\* moved it from CollectingGuests to ConfirmingReservation
C36_Witness ==
    /\ Turn /\ StateBefore = COLLECTING_GUESTS
    /\ SessionAfter.conversation_state = CONFIRMING_RESERVATION
    /\ \A key \in {"name", "contact", "date", "time", "guests"} : DataAfter[key] # <<>>

\* the fields of a booking
BookingFields == {"name", "contact", "date", "time", "guests"}
\* C37: the draft of a call in ConfirmingReservation holds a name, a contact,
\* a date, a time and a number of guests, and so does every record a turn
\* has created.
C37_BookingIsComplete ==
    /\ \A c \in Calls :
            session[c].conversation_state = CONFIRMING_RESERVATION =>
                \A key \in BookingFields : data[c][key] # <<>>
    /\ Turn => \A id \in ReservationIds :
                    (~exists(last.before.reservations, id) /\ exists(reservations, id)) =>
                        /\ reservations[id].reservation_id = id
                        /\ \A key \in BookingFields : reservations[id][key] # <<>>

\* C38: a call's session holds a pending_time only while its state is
\* CollectingTime, and a pending_contact only while its state is
\* CollectingContact.
C38_PendingValuesEndWithTheirState ==
    \A c \in Calls :
        /\ session[c].pending_time # <<>> =>
                get_conversation_state(session[c]) = COLLECTING_TIME
        /\ session[c].pending_contact # <<>> =>
                get_conversation_state(session[c]) = COLLECTING_CONTACT

\* a record of the store is gone after the turn
RecordDeleted ==
    \E id \in ReservationIds : exists(last.before.reservations, id) /\ ~exists(reservations, id)
\* C39: a turn deletes a reservation record only if it begins in
\* CollectingReservationId with action_type already cancel.
C39_DeletedOnlyWhenCancelWasStored ==
    (Turn /\ RecordDeleted) =>
        /\ StateBefore = COLLECTING_RESERVATION_ID
        /\ last.before.session.action_type = "cancel"

\* C40: when two calls that are asked for the id to cancel both name the
\* record ABCD1234, which exists, and their turns are processed with their
\* store operations interleaved, one turn reports the cancellation and the
\* other reports that no such reservation was found.
C40_OnlyOneCancellationSucceeds ==
    (Returned /\ turns[1].call_sid # turns[2].call_sid
        /\ \A r \in Requests :
                /\ arg.session[turns[r].call_sid].conversation_state = COLLECTING_RESERVATION_ID
                /\ arg.session[turns[r].call_sid].action_type = "cancel"
                /\ turns[r].user_input = S("ABCD1234")
        /\ exists(arg.reservations, S("ABCD1234"))) =>
        \E r \in Requests :
            /\ turns[r].response_data.response_text = <<"cancelled", S("ABCD1234")>>
            /\ turns[3 - r].response_data.response_text =
                    <<"not_found_to_cancel", S("ABCD1234")>>

====
